---- MODULE Spec2Model ----
(***************************************************************************)
(* Model of the iteration-1 pricing agent (EnhancedPricingRAGAgent):       *)
(* the guardrail pipeline of process_query, the recommendation store and   *)
(* the approval workflow of submit_approval_request.                       *)
(*                                                                         *)
(* Numbers.  Prices, percentages and money amounts are Python floats in    *)
(* the source.  They are modelled as exact rationals <<n, d>> (d > 0, in   *)
(* lowest terms); floating-point rounding is not modelled.  Timestamps are *)
(* whole seconds.  An absent optional value (Python None) is <<>> for      *)
(* numbers and records, "none" for strings and -1 for timestamps.          *)
(***************************************************************************)
EXTENDS Integers, Sequences, FiniteSets, TLC

(***************************************************************************)
(* Exact rational arithmetic                                               *)
(***************************************************************************)
RECURSIVE Gcd(_, _)
Gcd(a, b) == IF b = 0 THEN a ELSE Gcd(b, a % b)

AbsInt(a) == IF a < 0 THEN -a ELSE a

Rat(n, d) ==
    LET s == IF d < 0 THEN -1 ELSE 1
        g == Gcd(AbsInt(n), AbsInt(d))
    IN  <<(s * n) \div g, (s * d) \div g>>

I(n) == <<n, 1>>

RAdd(a, b) == Rat(a[1] * b[2] + b[1] * a[2], a[2] * b[2])
RNeg(a) == <<-a[1], a[2]>>
RSub(a, b) == RAdd(a, RNeg(b))
RMul(a, b) ==
    LET x == Rat(a[1], b[2])
        y == Rat(b[1], a[2])
    IN  <<x[1] * y[1], x[2] * y[2]>>
RDiv(a, b) == RMul(a, Rat(b[2], b[1]))
RLt(a, b) == a[1] * b[2] < b[1] * a[2]
RLe(a, b) == a[1] * b[2] <= b[1] * a[2]
RGt(a, b) == RLt(b, a)
RGe(a, b) == RLe(b, a)
RMax(a, b) == IF RLt(a, b) THEN b ELSE a
RMin(a, b) == IF RLt(b, a) THEN b ELSE a
RAbs(a) == <<AbsInt(a[1]), a[2]>>

None == <<>>
NoStr == "none"
NoTime == -1

(***************************************************************************)
(* guardrail_config (EnhancedPricingRAGAgent.__init__)                     *)
(***************************************************************************)
max_price_change_percent == I(50)
min_margin_percent == I(10)
max_margin_percent == I(80)
price_below_cost_multiplier == Rat(105, 100)
high_risk_price_change == I(25)
critical_risk_price_change == I(40)
low_confidence_threshold == Rat(6, 10)
medium_confidence_threshold == Rat(8, 10)
min_absolute_price == Rat(1, 2)
high_value_item_threshold == I(500)
max_absolute_price_change == I(100)

(***************************************************************************)
(* Enumerations of models.py                                               *)
(***************************************************************************)
ApprovalLevel == {"none", "analyst", "senior_analyst", "manager", "director"}
ApprovalStatus == {"pending", "approved", "rejected", "expired"}
RiskLevel == {"low", "medium", "high", "critical"}

OneMinute == 60
SevenDays == 604800

(***************************************************************************)
(* Bounds of the model                                                     *)
(***************************************************************************)
MaxRecs == 1          \* pipeline runs stored, pipeline specification
MaxApprovalRecs == 2  \* pipeline runs stored, approval specifications
MaxHistory == 2       \* entries of approval_history
MaxSkew == 1          \* seconds the clock moves between datetime.now() calls

(***************************************************************************)
(* Input data: products of the catalogue, as ProductInfo records           *)
(***************************************************************************)
Product(id, cost, cur, comps, target, stock, sales, elast) ==
    [item_id |-> id, cost_price |-> cost, current_price |-> cur,
     competitor_prices |-> comps, target_margin_percent |-> target,
     stock_level |-> stock, hourly_sales |-> sales, price_elasticity |-> elast]

\* current_price=100, cost=40, target_margin=30
ProdA == Product("A", I(40), I(100), <<I(95), I(105)>>, I(30), 500,
                 <<1, 1, 1, 1, 1, 0>>, Rat(-1, 2))
\* current_price=50, cost=45, elasticity=-0.5, 6h sales = 60
ProdB == Product("B", I(45), I(50), <<I(60)>>, I(30), 50,
                 <<10, 10, 10, 10, 10, 10>>, Rat(-1, 2))
\* a $1,000 item without competitor data
ProdC == Product("C", I(600), I(1000), <<>>, I(30), 2000,
                 <<0, 0, 1, 0, 0, 0>>, Rat(-1, 2))

\* a high-margin item: current_price=100, cost=10
ProdD == Product("D", I(10), I(100), <<I(95)>>, I(30), 500,
                 <<1, 1, 1, 1, 1, 0>>, Rat(-1, 2))

(***************************************************************************)
(* Input data: queries.  The text scans of the two input validators        *)
(* (substring tests and re.search over query.query.lower()) are library    *)
(* calls; a query carries their outcome on its text:                       *)
(*   deny      first non_pricing_keywords entry contained, or "none"       *)
(*   content   any pricing_keywords entry contained                        *)
(*   pattern   any pricing_patterns regex matches                          *)
(*   fraud_re  any price_patterns regex matches                            *)
(*   phrase    any suspicious_phrases entry contained                      *)
(***************************************************************************)
Query(text, deny, content, pattern, fraud_re, phrase) ==
    [query |-> text, deny |-> deny, content |-> content, pattern |-> pattern,
     fraud_re |-> fraud_re, phrase |-> phrase, requester_id |-> "demo_analyst"]

QRaise == Query("Should we raise the price of the running shoes?",
                NoStr, TRUE, TRUE, FALSE, FALSE)
QWeather == Query("what's the weather today", NoStr, FALSE, FALSE, FALSE, FALSE)
QForecast == Query("weather forecast impact on price",
                   "weather forecast", TRUE, FALSE, FALSE, FALSE)
QZero == Query("set price to 0 immediately", NoStr, TRUE, FALSE, TRUE, TRUE)
QRainPenny == Query("will it rain a penny", "will it rain", FALSE, FALSE, TRUE, FALSE)
QGiveAway == Query("give away the shoes at any price",
                   NoStr, TRUE, FALSE, FALSE, TRUE)

(***************************************************************************)
(* Records of models.py                                                    *)
(***************************************************************************)
GuardrailViolation(rule, vtype, orig, adj, expl, sev) ==
    [rule_name |-> rule, violation_type |-> vtype, original_value |-> orig,
     adjusted_value |-> adj, explanation |-> expl, severity |-> sev]

\* PricingRecommendation(...) with the field defaults of the class;
\* created_at is default_factory=datetime.now
PricingRecommendation(q, products, recommendation, reasoning, market, confidence, price, now) ==
    [query |-> q.query, product_info |-> products,
     recommendation |-> recommendation, reasoning |-> reasoning,
     market_context |-> market, confidence_score |-> confidence,
     recommended_price |-> price,
     approval_threshold |-> "analyst", risk_level |-> "low",
     guardrail_violations |-> <<>>, financial_impact |-> None,
     approval_status |-> "pending", approval_notes |-> NoStr,
     approved_by |-> NoStr, approved_at |-> NoTime, expires_at |-> NoTime,
     recommendation_id |-> 0, created_at |-> now, created_by |-> NoStr]

ApprovalRequest(id, approver, role, decision, notes, ts) ==
    [recommendation_id |-> id, approver_id |-> approver, approver_role |-> role,
     decision |-> decision, notes |-> notes, timestamp |-> ts]

RECURSIVE SumInt(_)
SumInt(s) == IF s = <<>> THEN 0 ELSE Head(s) + SumInt(Tail(s))

RECURSIVE SumRat(_)
SumRat(s) == IF s = <<>> THEN I(0) ELSE RAdd(Head(s), SumRat(Tail(s)))

\* Python truth value of an Optional[float]: None and 0.0 are false
Truthy(price) == price # None /\ price[1] # 0

(***************************************************************************)
(* Input Guardrail Stage                                                   *)
(***************************************************************************)
\* _validate_pricing_topic: None (here "none") if valid, else the message
ValidatePricingTopic(q) ==
    IF q.deny # NoStr THEN "outside_scope:" \o q.deny
    ELSE IF ~(q.content \/ q.pattern) THEN "not_a_pricing_query"
    ELSE NoStr

\* _validate_fraudulent_pricing: the regex list is scanned before the phrases
ValidateFraudulentPricing(q) ==
    IF q.fraud_re THEN "extremely_low_pricing"
    ELSE IF q.phrase THEN "non_commercial_request"
    ELSE NoStr

\* Variant: approval_status is left at the class default
CreateRejectionRecommendation_defaultStatus(q, rejection_type, message, now1, now2) ==
    [PricingRecommendation(q, <<>>,
        "Request cannot be processed due to policy violation.",
        <<message>>, "Request rejected due to policy violation.",
        I(0), None, now1)
     EXCEPT !.guardrail_violations =
                <<GuardrailViolation(rejection_type, "policy_violation",
                                     None, None, message, "critical")>>,
            !.risk_level = "critical",
            !.approval_threshold = "director",
            !.expires_at = now2 + OneMinute]

\* _create_rejection_recommendation; created_at and expires_at come from two
\* successive datetime.now() calls (now1 <= now2)
CreateRejectionRecommendation(q, rejection_type, message, now1, now2) ==
    [PricingRecommendation(q, <<>>,
        "Request cannot be processed due to policy violation.",
        <<message>>, "Request rejected due to policy violation.",
        I(0), None, now1)
     EXCEPT !.guardrail_violations =
                <<GuardrailViolation(rejection_type, "policy_violation",
                                     None, None, message, "critical")>>,
            !.approval_status = "rejected",
            !.risk_level = "critical",
            !.approval_threshold = "director",
            !.expires_at = now2 + OneMinute]

(***************************************************************************)
(* Revenue-Impact Validator                                                *)
(***************************************************************************)
RevenueLossTolerance == I(-100)

\* The financial_impact dict built by _validate_revenue_maximization
FinancialImpact(product, recommended_price) ==
    LET current_price == product.current_price
        price_change_pct ==
            RMul(RDiv(RSub(recommended_price, current_price), current_price), I(100))
        demand_change_pct == RMul(product.price_elasticity, price_change_pct)
        new_demand_multiplier ==
            RMax(RAdd(I(1), RDiv(demand_change_pct, I(100))), Rat(5, 100))
        recent_sales == SumInt(product.hourly_sales)
        daily_sales_estimate == I(recent_sales * 4)
        current_daily_revenue == RMul(current_price, daily_sales_estimate)
        projected_daily_sales == RMul(daily_sales_estimate, new_demand_multiplier)
        projected_daily_revenue == RMul(recommended_price, projected_daily_sales)
        daily_revenue_impact == RSub(projected_daily_revenue, current_daily_revenue)
        monthly_revenue_impact == RMul(daily_revenue_impact, I(30))
    IN  [price_change_percent |-> price_change_pct,
         price_change_amount |-> RSub(recommended_price, current_price),
         estimated_monthly_revenue_impact |-> monthly_revenue_impact,
         estimated_daily_sales |-> projected_daily_sales,
         demand_change_percent |-> demand_change_pct,
         current_daily_revenue |-> current_daily_revenue,
         projected_daily_revenue |-> projected_daily_revenue]

\* lines 281-309: the impact is attached; below the tolerance the error
\* message is returned, otherwise the summary is appended to the reasoning
RevenueVerdict(rec, fi) ==
    IF RLt(fi.estimated_monthly_revenue_impact, RevenueLossTolerance)
    THEN [error |-> "negative_monthly_revenue_impact",
          rec |-> [rec EXCEPT !.financial_impact = <<fi>>]]
    ELSE [error |-> NoStr,
          rec |-> [rec EXCEPT !.financial_impact = <<fi>>,
                              !.reasoning =
                                  Append(@, "FINANCIAL IMPACT ANALYSIS")]]

\* _validate_revenue_maximization: the error message ("none" if accepted) and
\* the recommendation as the call leaves it
ValidateRevenueMaximization(rec) ==
    IF rec.product_info = <<>> \/ ~Truthy(rec.recommended_price)
    THEN [error |-> NoStr, rec |-> rec]
    ELSE IF RLe(rec.product_info[1].current_price, I(0))
    THEN [error |-> NoStr, rec |-> rec]
    ELSE RevenueVerdict(rec, FinancialImpact(rec.product_info[1],
                                             rec.recommended_price))

(***************************************************************************)
(* Safety Guardrail Stage                                                  *)
(***************************************************************************)
\* max(current price, cost * 1.20, absolute minimum)
EmergencyPrice(product) ==
    RMax(RMax(product.current_price, RMul(product.cost_price, Rat(120, 100))),
         min_absolute_price)

\* variant: the violation records the new price as its original value
Adjusted_recordsNewPrice(g, fires, price, rule, vtype, expl, sev) ==
    IF fires
    THEN [price |-> price,
          violations |-> Append(g.violations,
              GuardrailViolation(rule, vtype, price, price, expl, sev))]
    ELSE g

\* The cascade of _apply_enhanced_guardrails.  Each guardrail reads the
\* price the previous one left (g.price) and appends to the violations
\* (g.violations).
Adjusted(g, fires, price, rule, vtype, expl, sev) ==
    IF fires
    THEN [price |-> price,
          violations |-> Append(g.violations,
              GuardrailViolation(rule, vtype, g.price, price, expl, sev))]
    ELSE g

\* GUARDRAIL 0: None, zero or negative price
Guardrail0(product, g) ==
    Adjusted(g, g.price = None \/ RLe(g.price, I(0)), EmergencyPrice(product),
             "critical_price_protection", "dangerous_pricing_error",
             "emergency fallback price", "critical")

SafePrice(product) ==
    RMax(RMax(RMul(product.current_price, Rat(1, 2)),
              RMul(product.cost_price, price_below_cost_multiplier)),
         min_absolute_price)

\* variant: a reduction of exactly 90% counts as extreme
Guardrail1_inclusive(product, g) ==
    Adjusted(g, RLe(g.price, RMul(product.current_price, Rat(1, 10))),
             SafePrice(product),
             "extreme_price_reduction_protection", "unrealistic_pricing",
             "extreme price reduction", "critical")

\* GUARDRAIL 1: more than 90% reduction
Guardrail1(product, g) ==
    Adjusted(g, RLt(g.price, RMul(product.current_price, Rat(1, 10))),
             SafePrice(product),
             "extreme_price_reduction_protection", "unrealistic_pricing",
             "extreme price reduction", "critical")

\* GUARDRAIL 2: absolute minimum price
Guardrail2(product, g) ==
    Adjusted(g, RLt(g.price, min_absolute_price), min_absolute_price,
             "minimum_absolute_price", "potential_fraud_or_error",
             "below absolute minimum", "critical")

\* GUARDRAIL 3: cost plus minimum markup
Guardrail3(product, g) ==
    Adjusted(g,
             RLt(g.price, RMul(product.cost_price, price_below_cost_multiplier)),
             RMul(product.cost_price, price_below_cost_multiplier),
             "minimum_cost_margin", "price_below_minimum",
             "minimum markup above cost", "high")

MaxChange(product) ==
    RMul(product.current_price, RDiv(max_price_change_percent, I(100)))

\* variant: only increases are limited
Guardrail4_upwardOnly(product, g) ==
    Adjusted(g,
             RGt(RSub(g.price, product.current_price), MaxChange(product)),
             RAdd(product.current_price, MaxChange(product)),
             "maximum_price_change", "excessive_price_change",
             "price change limited", "medium")

\* variant: the limit is stepped from the incoming price, not the current one
Guardrail4_fromCandidate(product, g) ==
    Adjusted(g,
             RGt(RAbs(RSub(g.price, product.current_price)), MaxChange(product)),
             IF RGt(g.price, product.current_price)
             THEN RSub(g.price, MaxChange(product))
             ELSE RAdd(g.price, MaxChange(product)),
             "maximum_price_change", "excessive_price_change",
             "price change limited", "medium")

\* GUARDRAIL 4: maximum price change
Guardrail4(product, g) ==
    Adjusted(g,
             RGt(RAbs(RSub(g.price, product.current_price)), MaxChange(product)),
             IF RGt(g.price, product.current_price)
             THEN RAdd(product.current_price, MaxChange(product))
             ELSE RSub(product.current_price, MaxChange(product)),
             "maximum_price_change", "excessive_price_change",
             "price change limited", "medium")

NewMargin(product, price) ==
    IF RGt(price, I(0))
    THEN RMul(RDiv(RSub(price, product.cost_price), price), I(100))
    ELSE I(0)

MarginPrice(product, margin_percent) ==
    RDiv(product.cost_price, RSub(I(1), RDiv(margin_percent, I(100))))

\* variant: only the margin ceiling is enforced
Guardrail5_ceilingOnly(product, g) ==
    Adjusted(g, RGt(NewMargin(product, g.price), max_margin_percent),
             MarginPrice(product, max_margin_percent),
             "maximum_margin", "margin_too_high", "excessive margin", "low")

\* GUARDRAIL 5: margin validation (too low, elif too high)
Guardrail5(product, g) ==
    IF RLt(NewMargin(product, g.price), min_margin_percent)
    THEN Adjusted(g, TRUE, MarginPrice(product, min_margin_percent),
                  "minimum_margin", "margin_too_low", "minimum margin",
                  "medium")
    ELSE Adjusted(g, RGt(NewMargin(product, g.price), max_margin_percent),
                  MarginPrice(product, max_margin_percent),
                  "maximum_margin", "margin_too_high", "excessive margin",
                  "low")

\* variant: a confidence equal to the threshold counts as low
Guardrail6_inclusive(rec, g) ==
    IF RLe(rec.confidence_score, low_confidence_threshold)
    THEN [g EXCEPT !.violations = Append(@,
              GuardrailViolation("low_confidence", "insufficient_data",
                                 rec.confidence_score, None,
                                 "low confidence score", "medium"))]
    ELSE g

\* GUARDRAIL 6: low confidence (informational, the price stays)
Guardrail6(rec, g) ==
    IF RLt(rec.confidence_score, low_confidence_threshold)
    THEN [g EXCEPT !.violations = Append(@,
              GuardrailViolation("low_confidence", "insufficient_data",
                                 rec.confidence_score, None,
                                 "low confidence score", "medium"))]
    ELSE g

\* the recommendation updated with the guardrail results
WithGuardrailResults(rec, g) ==
    [rec EXCEPT !.recommended_price = g.price,
                !.guardrail_violations = g.violations,
                !.reasoning = IF g.violations # <<>>
                              THEN Append(@, "GUARDRAIL ADJUSTMENTS")
                              ELSE @]

GuardrailCascade(rec, product) ==
    Guardrail6(rec,
      Guardrail5(product,
        Guardrail4(product,
          Guardrail3(product,
            Guardrail2(product,
              Guardrail1(product,
                Guardrail0(product,
                  [price |-> rec.recommended_price, violations |-> <<>>])))))))

\* _apply_enhanced_guardrails
ApplyEnhancedGuardrails(rec) ==
    IF rec.product_info = <<>> THEN rec
    ELSE WithGuardrailResults(rec, GuardrailCascade(rec, rec.product_info[1]))

(***************************************************************************)
(* Risk & Approval Engine: classification                                  *)
(***************************************************************************)
\* float('inf'): compares above every rational under cross-multiplication
Infinity == <<1, 0>>

\* variant: the high tier looks at the percentage only
AssessRiskAndApproval_percentOnly(rec, now) ==
    IF rec.product_info = <<>> \/ ~Truthy(rec.recommended_price)
    THEN [rec EXCEPT !.risk_level = "low", !.approval_threshold = "analyst"]
    ELSE
      LET product == rec.product_info[1]
          current_price == product.current_price
          recommended_price == rec.recommended_price
          has_fi == rec.financial_impact # None
          daily_sales_estimate == I(SumInt(product.hourly_sales) * 4)
          fallback_fi ==
              [price_change_percent |->
                   IF RGt(current_price, I(0))
                   THEN RMul(RDiv(RSub(recommended_price, current_price),
                                  current_price), I(100))
                   ELSE I(0),
               price_change_amount |-> RSub(recommended_price, current_price),
               estimated_monthly_revenue_impact |->
                   RMul(RMul(RSub(recommended_price, current_price),
                             daily_sales_estimate), I(30)),
               estimated_daily_sales |-> daily_sales_estimate]
          fi == IF has_fi THEN rec.financial_impact[1] ELSE fallback_fi
          revenue_impact == fi.estimated_monthly_revenue_impact
          price_change_pct ==
              IF has_fi \/ RGt(current_price, I(0))
              THEN RAbs(fi.price_change_percent)
              ELSE Infinity
          price_change_abs == RAbs(fi.price_change_amount)
          level ==
              IF RGe(price_change_pct, critical_risk_price_change)
              THEN <<"critical", "director">>
              ELSE IF RGe(price_change_pct, high_risk_price_change)
              THEN <<"high", "manager">>
              ELSE IF RGe(price_change_pct, I(10))
                      \/ RLt(rec.confidence_score, medium_confidence_threshold)
                      \/ RGt(RAbs(revenue_impact), I(10000))
                      \/ RGt(current_price, high_value_item_threshold)
              THEN <<"medium", "senior_analyst">>
              ELSE <<"low", "analyst">>
      IN  [rec EXCEPT !.financial_impact = <<fi>>,
                      !.risk_level = level[1],
                      !.approval_threshold = level[2],
                      !.expires_at = now + SevenDays]

\* _assess_risk_and_approval; now is the datetime.now() of the expiry
AssessRiskAndApproval(rec, now) ==
    IF rec.product_info = <<>> \/ ~Truthy(rec.recommended_price)
    THEN [rec EXCEPT !.risk_level = "low", !.approval_threshold = "analyst"]
    ELSE
      LET product == rec.product_info[1]
          current_price == product.current_price
          recommended_price == rec.recommended_price
          has_fi == rec.financial_impact # None
          daily_sales_estimate == I(SumInt(product.hourly_sales) * 4)
          fallback_fi ==
              [price_change_percent |->
                   IF RGt(current_price, I(0))
                   THEN RMul(RDiv(RSub(recommended_price, current_price),
                                  current_price), I(100))
                   ELSE I(0),
               price_change_amount |-> RSub(recommended_price, current_price),
               estimated_monthly_revenue_impact |->
                   RMul(RMul(RSub(recommended_price, current_price),
                             daily_sales_estimate), I(30)),
               estimated_daily_sales |-> daily_sales_estimate]
          fi == IF has_fi THEN rec.financial_impact[1] ELSE fallback_fi
          revenue_impact == fi.estimated_monthly_revenue_impact
          price_change_pct ==
              IF has_fi \/ RGt(current_price, I(0))
              THEN RAbs(fi.price_change_percent)
              ELSE Infinity
          price_change_abs == RAbs(fi.price_change_amount)
          level ==
              IF RGe(price_change_pct, critical_risk_price_change)
              THEN <<"critical", "director">>
              ELSE IF RGe(price_change_pct, high_risk_price_change)
                      \/ RGt(price_change_abs, max_absolute_price_change)
              THEN <<"high", "manager">>
              ELSE IF RGe(price_change_pct, I(10))
                      \/ RLt(rec.confidence_score, medium_confidence_threshold)
                      \/ RGt(RAbs(revenue_impact), I(10000))
                      \/ RGt(current_price, high_value_item_threshold)
              THEN <<"medium", "senior_analyst">>
              ELSE <<"low", "analyst">>
      IN  [rec EXCEPT !.financial_impact = <<fi>>,
                      !.risk_level = level[1],
                      !.approval_threshold = level[2],
                      !.expires_at = now + SevenDays]

(***************************************************************************)
(* Price suggestion: language model or rule-based fallback                 *)
(***************************************************************************)
\* _apply_business_rules: computes notes it discards; returns every product
ApplyBusinessRules(products) == products

\* _parse_llm_response.  The response text is carried as the sequence of its
\* "$<digits>" mentions (what re.findall returns, as numbers); the last one
\* is the candidate.
ParseLLMResponse(q, mentions, products, now) ==
    LET last == IF mentions = <<>> THEN None ELSE mentions[Len(mentions)]
        recommended_price ==
            IF last = None THEN None
            ELSE IF RLe(last, I(0))
            THEN IF products # <<>> THEN EmergencyPrice(products[1]) ELSE None
            ELSE last
        confidence_score ==
            IF Len(products) < 2 THEN Rat(6, 10)
            ELSE IF ~(\E i \in 1..Len(products) :
                          products[i].competitor_prices # <<>>)
            THEN Rat(7, 10)
            ELSE Rat(8, 10)
    IN  PricingRecommendation(q, products, "llm_response", <<"llm_response">>,
                              "market_summary+competitor_analysis",
                              confidence_score, recommended_price, now)

\* _generate_fallback_recommendation
GenerateFallbackRecommendation(q, products, now) ==
    IF products = <<>>
    THEN PricingRecommendation(q, <<>>,
             "No relevant products found for this query.",
             <<"Unable to retrieve relevant product data for analysis.">>,
             "Insufficient data available.", I(0), None, now)
    ELSE
      LET product == products[1]
          cur == product.current_price
          current_margin ==
              IF RGt(cur, I(0))
              THEN RMul(RDiv(RSub(cur, product.cost_price), cur), I(100))
              ELSE I(0)
          avg_competitor_price ==
              IF product.competitor_prices # <<>>
              THEN RDiv(SumRat(product.competitor_prices),
                        I(Len(product.competitor_prices)))
              ELSE cur
          below_target == RLt(current_margin, product.target_margin_percent)
          recommended_price ==
              IF below_target
              THEN IF product.stock_level < 100
                   THEN RMin(RMul(avg_competitor_price, Rat(105, 100)),
                             RMul(cur, Rat(11, 10)))
                   ELSE avg_competitor_price
              ELSE IF product.stock_level > 1000
                   THEN RMul(cur, Rat(95, 100))
                   ELSE cur
          recommendation ==
              IF below_target
              THEN IF product.stock_level < 100
                   THEN "Increase price to improve margin"
                   ELSE "Adjust price to match competitor average"
              ELSE IF product.stock_level > 1000
                   THEN "Consider reducing price to increase turnover"
                   ELSE "Current pricing appears optimal"
      IN  PricingRecommendation(q, products, recommendation,
                                <<"fallback_reasoning">>, "market_summary",
                                Rat(7, 10), recommended_price, now)

(***************************************************************************)
(* Risk & Approval Engine: authority                                       *)
(***************************************************************************)
\* approver_levels.get(approver_role, ApprovalLevel.ANALYST)
ApproverLevel(role) ==
    IF role \in {"analyst", "senior_analyst", "manager", "director"}
    THEN role
    ELSE "analyst"

\* level_hierarchy of _has_approval_authority
level_hierarchy ==
    [l \in {"analyst", "senior_analyst", "manager", "director"} |->
        CASE l = "analyst" -> 1
          [] l = "senior_analyst" -> 2
          [] l = "manager" -> 3
          [] l = "director" -> 4]

\* Variants of the comparison: strict, and with the operands exchanged
HasApprovalAuthority_strict(approver_level, required_level) ==
    level_hierarchy[approver_level] > level_hierarchy[required_level]

HasApprovalAuthority_swapped(approver_level, required_level) ==
    level_hierarchy[approver_level] <= level_hierarchy[required_level]

HasApprovalAuthority(approver_level, required_level) ==
    level_hierarchy[approver_level] >= level_hierarchy[required_level]

(***************************************************************************)
(* State                                                                   *)
(***************************************************************************)
VARIABLES
    has_key,                 \* self.openai_api_key is set
    llm,                     \* self.llm is not None
    use_vector_store,        \* self.use_vector_store
    initialized,             \* self.initialized
    active_recommendations,  \* recommendation_id -> PricingRecommendation
    approval_history,        \* list of ApprovalRequest
    clock,                   \* datetime.now(), seconds
    last,                    \* the last completed call and what it returned
    pc, treq, tret,          \* per thread: position in submit_approval_request
    observed,                \* what the last concurrent reader saw
    candidate,               \* recommendation handed to the revenue validator
    validation,              \* what _validate_revenue_maximization made of it
    clamped,                 \* what _apply_enhanced_guardrails returned, per pass
    assessed,                \* what _assess_risk_and_approval returned
    analysis                 \* the iteration-2 agent: the run of run_analysis

vars == <<has_key, llm, use_vector_store, initialized, active_recommendations,
          approval_history, clock, last, pc, treq, tret, observed,
          candidate, validation, clamped, assessed, analysis>>

agentVars == <<has_key, llm, use_vector_store, initialized>>
threadVars == <<pc, treq, tret, observed>>
validatorVars == <<candidate, validation, clamped, assessed, analysis>>

Threads == {1, 2}

\* op: the call; raised: it raised; ok: its boolean result (for process_query,
\* that it returned); rec: the recommendation(s) returned; calls: stages it
\* ran; role: the role filter given to get_pending_approvals
NoCall == [op |-> "none", raised |-> FALSE, ok |-> FALSE, rec |-> <<>>,
           calls |-> <<>>, suggested |-> <<>>, role |-> "none"]

\* no run_analysis has been called: engine is the graph implementation in
\* use, node the next node to run, visited the nodes run so far, raised the
\* exception that ended the run, state the PricingAgentState, result what
\* run_analysis returned
NoAnalysis == [engine |-> "none", node |-> "none", visited |-> <<>>,
               raised |-> "none", state |-> <<>>, result |-> <<>>]

Init ==
    /\ has_key \in BOOLEAN
    /\ llm = FALSE
    /\ use_vector_store = TRUE
    /\ initialized = FALSE
    /\ active_recommendations = <<>>
    /\ approval_history = <<>>
    /\ clock = 0
    /\ last = NoCall
    /\ pc = [t \in Threads |-> "idle"]
    /\ treq = [t \in Threads |-> <<>>]
    /\ tret = [t \in Threads |-> "none"]
    /\ observed = <<>>
    /\ candidate = <<>>
    /\ validation = <<>>
    /\ clamped = <<>>
    /\ assessed = <<>>
    /\ analysis = NoAnalysis

StoredIds == DOMAIN active_recommendations

IsPendingIn(store, id) == store[id].approval_status = "pending"

(***************************************************************************)
(* initialize(): load_ok is whether data loading succeeds, vs_ok whether   *)
(* the vector store comes up.  The callers (start-up hooks, demo scripts)  *)
(* call it once before anything else; a failed call may be repeated.       *)
(***************************************************************************)
Initialize(load_ok, vs_ok) ==
    /\ ~initialized      \* called at start-up, until it succeeds
    /\ llm' = (llm \/ has_key)
    /\ IF load_ok
       THEN /\ use_vector_store' = vs_ok
            /\ initialized' = TRUE
            /\ last' = [NoCall EXCEPT !.op = "initialize", !.ok = TRUE]
       ELSE /\ UNCHANGED <<use_vector_store, initialized>>
            /\ last' = [NoCall EXCEPT !.op = "initialize", !.raised = TRUE]
    /\ UNCHANGED validatorVars
    /\ UNCHANGED <<has_key, active_recommendations, approval_history, clock,
                   threadVars>>

(***************************************************************************)
(* process_query                                                           *)
(***************************************************************************)
\* _retrieve_context: the vector store is searched when use_vector_store; a
\* failing search falls back to the simple retriever.  What is retrieved is
\* the environment's choice (found).
RetrieveContext(use_vs, vs_fails, found) ==
    [relevant_products |-> found,
     searched |-> IF use_vs
                  THEN IF vs_fails THEN <<"vector_store", "simple_retriever">>
                       ELSE <<"vector_store">>
                  ELSE <<"simple_retriever">>]

\* _generate_recommendation on a language model that answers: without a
\* model the rule-based fallback, else the parsed response
GenerateRecommendation(q, has_llm, mentions, validated_products, now) ==
    IF ~has_llm
    THEN GenerateFallbackRecommendation(q, validated_products, now)
    ELSE ParseLLMResponse(q, mentions, validated_products, now)

\* the stages process_query has run once the suggestion step is reached
StagesToSuggestion(ctx, has_llm) ==
    <<"topic", "fraud">> \o ctx.searched
    \o <<"rules", IF has_llm THEN "llm" ELSE "fallback">>

\* process_query returning a rejection; suggested is what the suggestion
\* step returned, if it ran: <<products, candidate price>>
Rejected(q, rejection_type, message, calls, suggested, now1, now2) ==
    [raised |-> FALSE, stored |-> FALSE, calls |-> calls,
     suggested |-> suggested,
     rec |-> <<CreateRejectionRecommendation(q, rejection_type, message,
                                             now1, now2)>>]

\* steps 4 to 6: guardrails, risk assessment, tracking fields
Tracked(q, rec, id, now) ==
    [AssessRiskAndApproval(ApplyEnhancedGuardrails(rec), now)
     EXCEPT !.recommendation_id = id, !.created_by = q.requester_id]

\* Variant: a revenue-negative candidate is clamped and stored like any
\* other instead of being rejected
AfterRevenueValidation_clampsInstead(q, ctx, has_llm, revenue, id, now1, now2) ==
    [raised |-> FALSE, stored |-> TRUE,
     suggested |-> <<revenue.rec.product_info, revenue.rec.recommended_price>>,
     rec |-> <<Tracked(q, revenue.rec, id, now2)>>,
     calls |-> StagesToSuggestion(ctx, has_llm)
               \o <<"revenue", "guardrails", "risk", "store">>]

\* step 3.5 onwards, on the outcome of the revenue validation
AfterRevenueValidation(q, ctx, has_llm, revenue, id, now1, now2) ==
    IF revenue.error # NoStr
    THEN Rejected(q, "negative_revenue_impact", revenue.error,
                  StagesToSuggestion(ctx, has_llm) \o <<"revenue">>,
                  <<revenue.rec.product_info, revenue.rec.recommended_price>>,
                  now1, now2)
    ELSE [raised |-> FALSE, stored |-> TRUE,
          suggested |->
              <<revenue.rec.product_info, revenue.rec.recommended_price>>,
          rec |-> <<Tracked(q, revenue.rec, id, now2)>>,
          calls |-> StagesToSuggestion(ctx, has_llm)
                    \o <<"revenue", "guardrails", "risk", "store">>]

\* steps 2 onwards, on the retrieved context; a failing llm.invoke is not
\* caught by _generate_recommendation and process_query re-raises it
AfterRetrieval(q, ctx, has_llm, llm_fails, mentions, id, now1, now2) ==
    IF has_llm /\ llm_fails
    THEN [raised |-> TRUE, stored |-> FALSE, rec |-> <<>>,
          suggested |-> <<>>,
          calls |-> StagesToSuggestion(ctx, has_llm)]
    ELSE AfterRevenueValidation(q, ctx, has_llm,
             ValidateRevenueMaximization(
                 GenerateRecommendation(q, has_llm, mentions,
                     ApplyBusinessRules(ctx.relevant_products), now1)),
             id, now1, now2)

\* variant: a fraud rejection is reported under the topic check's name
ProcessQueryBody_mislabelsFraud(q, has_llm, use_vs, vs_fails, found, llm_fails, mentions, id, now1, now2) ==
    IF ValidatePricingTopic(q) # NoStr
    THEN Rejected(q, "topic_validation_failed", ValidatePricingTopic(q),
                  <<"topic">>, <<>>, now1, now2)
    ELSE IF ValidateFraudulentPricing(q) # NoStr
    THEN Rejected(q, "topic_validation_failed",
                  ValidateFraudulentPricing(q), <<"topic", "fraud">>, <<>>,
                  now1, now2)
    ELSE AfterRetrieval(q, RetrieveContext(use_vs, vs_fails, found), has_llm,
                        llm_fails, mentions, id, now1, now2)

\* The body of process_query on an initialized agent.  Inputs: the query,
\* the retrieval (vs_fails, found), the language model's behaviour
\* (llm_fails, mentions), the fresh uuid, the clock at the first and at a
\* later datetime.now().  Result: whether it raised, the recommendation
\* returned, whether it was stored, and the stages that ran (calls).
ProcessQueryBody(q, has_llm, use_vs, vs_fails, found, llm_fails, mentions, id, now1, now2) ==
    IF ValidatePricingTopic(q) # NoStr
    THEN Rejected(q, "topic_validation_failed", ValidatePricingTopic(q),
                  <<"topic">>, <<>>, now1, now2)
    ELSE IF ValidateFraudulentPricing(q) # NoStr
    THEN Rejected(q, "fraudulent_pricing_detected",
                  ValidateFraudulentPricing(q), <<"topic", "fraud">>, <<>>,
                  now1, now2)
    ELSE AfterRetrieval(q, RetrieveContext(use_vs, vs_fails, found), has_llm,
                        llm_fails, mentions, id, now1, now2)

\* variant: whatever process_query returns is also put in the store
ProcessQueryReturns_storesRejected(out, id, d) ==
    /\ active_recommendations' =
           IF out.rec # <<>>
           THEN active_recommendations @@ (id :> out.rec[1])
           ELSE active_recommendations
    /\ clock' = clock + d
    /\ last' = [NoCall EXCEPT !.op = "process_query",
                              !.raised = out.raised,
                              !.ok = ~out.raised,
                              !.rec = out.rec,
                              !.calls = out.calls,
                              !.suggested = out.suggested]

\* process_query returning (or raising): the store, the clock and the
\* record of the call
ProcessQueryReturns(out, id, d) ==
    /\ active_recommendations' =
           IF out.stored
           THEN active_recommendations @@ (id :> out.rec[1])
           ELSE active_recommendations
    /\ clock' = clock + d
    /\ last' = [NoCall EXCEPT !.op = "process_query",
                              !.raised = out.raised,
                              !.ok = ~out.raised,
                              !.rec = out.rec,
                              !.calls = out.calls,
                              !.suggested = out.suggested]

\* The inputs process_query reads: none before the input guardrails pass
ReadsContext(q) ==
    initialized /\ ValidatePricingTopic(q) = NoStr
                /\ ValidateFraudulentPricing(q) = NoStr

\* limit bounds the calls that get past the input guardrails while the
\* store is full
ProcessQuery(q, vs_fails, found, llm_fails, mentions, d, limit) ==
    /\ clock + d <= MaxSkew
    /\ ReadsContext(q) => Cardinality(StoredIds) < limit
    /\ IF ~initialized
       THEN /\ last' = [NoCall EXCEPT !.op = "process_query", !.raised = TRUE]
            /\ UNCHANGED <<active_recommendations, clock>>
       ELSE ProcessQueryReturns(
                ProcessQueryBody(q, llm, use_vector_store, vs_fails, found,
                                 llm_fails, mentions,
                                 Cardinality(StoredIds) + 1, clock, clock + d),
                Cardinality(StoredIds) + 1, d)
    /\ UNCHANGED validatorVars
    /\ UNCHANGED <<agentVars, approval_history, threadVars>>

(***************************************************************************)
(* submit_approval_request, run to completion                              *)
(***************************************************************************)
\* Whether the call reaches "return True": the id is stored and the
\* approver's level suffices (both failures raise ValueError, caught by the
\* handler's except, which returns False)
SubmitSucceeds(store, req) ==
    /\ req.recommendation_id \in DOMAIN store
    /\ store[req.recommendation_id].approval_threshold \in DOMAIN level_hierarchy
    /\ HasApprovalAuthority(ApproverLevel(req.approver_role),
                            store[req.recommendation_id].approval_threshold)

\* Variant: the timestamp is written to expires_at instead of approved_at
ApplyDecision_wrongField(rec, req) ==
    [rec EXCEPT !.approval_status = req.decision,
                !.approval_notes = req.notes,
                !.approved_by = req.approver_id,
                !.expires_at = req.timestamp]

\* Variant: a resolved recommendation no longer asks for an approver
ApplyDecision_resetsThreshold(rec, req) ==
    [rec EXCEPT !.approval_status = req.decision,
                !.approval_notes = req.notes,
                !.approved_by = req.approver_id,
                !.approved_at = req.timestamp,
                !.approval_threshold = "none"]

\* The four assignments to the stored recommendation
ApplyDecision(rec, req) ==
    [rec EXCEPT !.approval_status = req.decision,
                !.approval_notes = req.notes,
                !.approved_by = req.approver_id,
                !.approved_at = req.timestamp]

\* approval_history after the call: the request is appended after the
\* assignments, on the path that returns True
HistoryAfter(history, req, success) ==
    IF success THEN Append(history, req) ELSE history

SubmitApprovalRequest(req) ==
    LET success == SubmitSucceeds(active_recommendations, req)
    IN  /\ Len(HistoryAfter(approval_history, req, success)) <= MaxHistory
        /\ last' = [NoCall EXCEPT !.op = "submit_approval_request",
                                  !.ok = success]
        /\ approval_history' = HistoryAfter(approval_history, req, success)
        /\ active_recommendations' =
               IF success
               THEN [active_recommendations EXCEPT ![req.recommendation_id] =
                        ApplyDecision(@, req)]
               ELSE active_recommendations
        /\ UNCHANGED validatorVars
        /\ UNCHANGED <<agentVars, clock, threadVars>>

(***************************************************************************)
(* get_pending_approvals                                                   *)
(***************************************************************************)
StillPending(rec) == rec.approval_status = "pending"

\* Variant: the role filter is ignored
PendingApprovals_ignoresRole(store, approver_role) ==
    SelectSeq(store, StillPending)

\* the list returned: the pending entries in insertion order, kept for a
\* given role only where that role's level reaches the entry's threshold
\* (an unknown role counts as analyst; a role that is None or the empty
\* string is false at line 670 and keeps them all)
PendingApprovals(store, approver_role) ==
    IF approver_role \in {NoStr, ""}
    THEN SelectSeq(store, StillPending)
    ELSE SelectSeq(SelectSeq(store, StillPending),
                   LAMBDA rec : HasApprovalAuthority(
                                    ApproverLevel(approver_role),
                                    rec.approval_threshold))

GetPendingApprovals(approver_role) ==
    /\ last' = [NoCall EXCEPT !.op = "get_pending_approvals",
                              !.ok = TRUE,
                              !.role = approver_role,
                              !.rec = PendingApprovals(active_recommendations,
                                                       approver_role)]
    /\ UNCHANGED validatorVars
    /\ UNCHANGED <<agentVars, active_recommendations, approval_history,
                   clock, threadVars>>

(***************************************************************************)
(* Inputs the environment may supply                                       *)
(***************************************************************************)
Queries == {QRaise, QWeather, QForecast, QZero, QRainPenny, QGiveAway}

\* what retrieval may return
Retrievals == {<<>>, <<ProdB>>, <<ProdD>>, <<ProdA, ProdB>>}

\* "$" mentions in the language model's response
Responses == {<<>>, <<I(0)>>, <<I(105)>>, <<I(130)>>, <<I(160)>>,
              <<I(105), I(20)>>}

\* the approval scenarios: one retrieval, responses reaching the four tiers
ApprovalRetrievals == {<<ProdA, ProdB>>}
ApprovalResponses == {<<I(105)>>, <<I(112)>>, <<I(130)>>, <<I(160)>>}

\* approver_id and approver_role of the requests; "intern" is outside the
\* role vocabulary
Approvers == {<<"analyst_001", "analyst">>, <<"senior_001", "senior_analyst">>,
              <<"manager_001", "manager">>, <<"director_001", "director">>,
              <<"intern_001", "intern">>}
Decisions == {"approved", "rejected"}
Notes == {"reviewed"}

\* ids a request may name: the stored ones, and 0 for an id never issued
RequestIds == {0} \cup StoredIds

ApprovalRequests ==
    {ApprovalRequest(id, a[1], a[2], dec, n, clock) :
        id \in RequestIds, a \in Approvers, dec \in Decisions, n \in Notes}

(***************************************************************************)
(* Specifications                                                          *)
(***************************************************************************)
InitializeStep == \E load_ok, vs_ok \in BOOLEAN : Initialize(load_ok, vs_ok)

\* The pipeline: every query, retrieval and response (a response is read
\* only from a language model that is configured and answers)
ProcessQueryStep ==
    \E q \in Queries, d \in 0..MaxSkew :
      \E vs_fails \in IF ReadsContext(q) /\ use_vector_store
                      THEN BOOLEAN ELSE {FALSE},
         found \in IF ReadsContext(q) THEN Retrievals ELSE {<<>>},
         llm_fails \in IF ReadsContext(q) /\ llm THEN BOOLEAN ELSE {FALSE} :
         \E mentions \in IF ReadsContext(q) /\ llm /\ ~llm_fails
                          THEN Responses ELSE {<<>>} :
            ProcessQuery(q, vs_fails, found, llm_fails, mentions, d, MaxRecs)

Next ==
    \/ InitializeStep
    \/ ProcessQueryStep

Spec == Init /\ [][Next]_vars

\* The approval workflow over recommendations the pipeline stored
ApprovalInitializeStep == \E load_ok \in BOOLEAN : Initialize(load_ok, TRUE)

\* the first recommendation stored is drawn from every tier, the further
\* ones are director-tier entries beside it
ApprovalProcessQueryStep ==
    \E found \in ApprovalRetrievals,
       mentions \in IF StoredIds = {} THEN ApprovalResponses
                    ELSE {<<I(160)>>} :
       ProcessQuery(QRaise, FALSE, found, FALSE, mentions, 0, MaxApprovalRecs)

SubmitStep == \E req \in ApprovalRequests : SubmitApprovalRequest(req)

ApprovalNext ==
    \/ ApprovalInitializeStep
    \/ ApprovalProcessQueryStep
    \/ SubmitStep

ApprovalSpec == Init /\ [][ApprovalNext]_vars

(***************************************************************************)
(* submit_approval_request, statement by statement, on two threads.  The   *)
(* method takes no lock; a thread may be preempted between any two         *)
(* statements that touch the shared store.  Labels are source lines.       *)
(***************************************************************************)
ConcApprovers == {<<"analyst_001", "analyst">>, <<"manager_001", "manager">>}

ConcRequests ==
    {ApprovalRequest(id, a[1], a[2], dec, n, clock) :
        id \in RequestIds, a \in ConcApprovers, dec \in Decisions, n \in Notes}

InFlight == {t \in Threads : pc[t] # "idle"}

TheReq(t) == treq[t][1].req
TheRec(t) == active_recommendations[TheReq(t).recommendation_id]

Return(t, value) ==
    /\ pc' = [pc EXCEPT ![t] = "idle"]
    /\ tret' = [tret EXCEPT ![t] = value]

Goto(t, label) ==
    /\ pc' = [pc EXCEPT ![t] = label]
    /\ UNCHANGED tret

UpdateRec(t, field, value) ==
    active_recommendations' =
        [active_recommendations EXCEPT
            ![TheReq(t).recommendation_id][field] = value]

\* the call begins; pending_at_call notes (for the properties only) whether
\* the entry it names was pending at that moment
Call(t, req) ==
    /\ pc[t] = "idle"
    /\ Len(approval_history) + Cardinality(InFlight) < MaxHistory
    /\ treq' = [treq EXCEPT ![t] =
                  <<[req |-> req,
                     pending_at_call |->
                        /\ req.recommendation_id \in StoredIds
                        /\ IsPendingIn(active_recommendations,
                                       req.recommendation_id)]>>]
    /\ pc' = [pc EXCEPT ![t] = "l613"]
    /\ tret' = [tret EXCEPT ![t] = "none"]
    /\ UNCHANGED validatorVars
    /\ UNCHANGED <<agentVars, active_recommendations, approval_history, clock,
                   last, observed>>

\* line 613: if approval_request.recommendation_id not in the store: raise
L613(t) ==
    /\ pc[t] = "l613"
    /\ IF TheReq(t).recommendation_id \notin StoredIds
       THEN Return(t, "False")
       ELSE Goto(t, "l630")
    /\ UNCHANGED validatorVars
    /\ UNCHANGED <<agentVars, active_recommendations, approval_history, clock,
                   last, treq, observed>>

\* lines 616-631: look the entry up, compare the levels, raise if too low
L630(t) ==
    /\ pc[t] = "l630"
    /\ IF SubmitSucceeds(active_recommendations, TheReq(t))
       THEN Goto(t, "l634")
       ELSE Return(t, "False")
    /\ UNCHANGED validatorVars
    /\ UNCHANGED <<agentVars, active_recommendations, approval_history, clock,
                   last, treq, observed>>

\* line 634: recommendation.approval_status = approval_request.decision
L634(t) ==
    /\ pc[t] = "l634"
    /\ UpdateRec(t, "approval_status", TheReq(t).decision)
    /\ Goto(t, "l635")
    /\ UNCHANGED validatorVars
    /\ UNCHANGED <<agentVars, approval_history, clock, last, treq, observed>>

\* line 635: recommendation.approval_notes = approval_request.notes
L635(t) ==
    /\ pc[t] = "l635"
    /\ UpdateRec(t, "approval_notes", TheReq(t).notes)
    /\ Goto(t, "l636")
    /\ UNCHANGED validatorVars
    /\ UNCHANGED <<agentVars, approval_history, clock, last, treq, observed>>

\* line 636: recommendation.approved_by = approval_request.approver_id
L636(t) ==
    /\ pc[t] = "l636"
    /\ UpdateRec(t, "approved_by", TheReq(t).approver_id)
    /\ Goto(t, "l637")
    /\ UNCHANGED validatorVars
    /\ UNCHANGED <<agentVars, approval_history, clock, last, treq, observed>>

\* line 637: recommendation.approved_at = approval_request.timestamp
L637(t) ==
    /\ pc[t] = "l637"
    /\ UpdateRec(t, "approved_at", TheReq(t).timestamp)
    /\ Goto(t, "l640")
    /\ UNCHANGED validatorVars
    /\ UNCHANGED <<agentVars, approval_history, clock, last, treq, observed>>

\* lines 640-643: self.approval_history.append(approval_request); return True
L640(t) ==
    /\ pc[t] = "l640"
    /\ approval_history' = Append(approval_history, TheReq(t))
    /\ Return(t, "True")
    /\ UNCHANGED validatorVars
    /\ UNCHANGED <<agentVars, active_recommendations, clock, last, treq,
                   observed>>

\* get_recommendation_by_id on another thread: what a reader sees of an entry
GetRecommendationById(id) ==
    /\ id \in StoredIds
    /\ observed' = <<active_recommendations[id].approval_status,
                     active_recommendations[id].approved_by,
                     active_recommendations[id].approved_at>>
    /\ UNCHANGED validatorVars
    /\ UNCHANGED <<agentVars, active_recommendations, approval_history, clock,
                   last, pc, treq, tret>>

ConcInitializeStep == Initialize(TRUE, TRUE)

ConcProcessQueryStep ==
    ProcessQuery(QRaise, FALSE, <<ProdA, ProdB>>, FALSE, <<I(130)>>, 0, MaxRecs)

ThreadStep ==
    \E t \in Threads :
        \/ \E req \in ConcRequests : Call(t, req)
        \/ L613(t)
        \/ L630(t)
        \/ L634(t)
        \/ L635(t)
        \/ L636(t)
        \/ L637(t)
        \/ L640(t)

ReaderStep == \E id \in StoredIds : GetRecommendationById(id)

ConcNext ==
    \/ ConcInitializeStep
    \/ ConcProcessQueryStep
    \/ ThreadStep
    \/ ReaderStep

ConcSpec == Init /\ [][ConcNext]_vars

(***************************************************************************)
(* The workflow seen by a director: process_query on every path (input     *)
(* rejection, no product found, revenue rejection, the four risk tiers),   *)
(* the director resolving stored entries, and the pending list being read  *)
(***************************************************************************)
WorkflowProcessQueryStep ==
    \E q \in {QRaise, QZero} :
      \E found \in IF ReadsContext(q) THEN {<<>>, <<ProdA, ProdB>>}
                    ELSE {<<>>} :
        \E mentions \in IF ReadsContext(q) /\ llm /\ found # <<>>
                         THEN ApprovalResponses \cup {<<I(105), I(20)>>}
                         ELSE {<<I(105)>>} :
           ProcessQuery(q, FALSE, found, FALSE, mentions, 0, MaxApprovalRecs)

WorkflowSubmitStep ==
    \E id \in StoredIds, dec \in Decisions :
        SubmitApprovalRequest(ApprovalRequest(id, "director_001", "director",
                                              dec, "reviewed", clock))

\* the listing is asked for without a role (None) and for each of the four
WorkflowNext ==
    \/ ApprovalInitializeStep
    \/ WorkflowProcessQueryStep
    \/ WorkflowSubmitStep
    \/ \E role \in {NoStr, "analyst", "senior_analyst", "manager",
                     "director"} :
          GetPendingApprovals(role)

WorkflowSpec == Init /\ [][WorkflowNext]_vars

(***************************************************************************)
(* The workflow across the expiry date: recommendations are stored, more   *)
(* than seven days pass, and the entries are listed and resolved           *)
(***************************************************************************)
ExpiryApprovers ==
    {<<"analyst_001", "analyst">>, <<"director_001", "director">>}

\* datetime.now() moves past every expires_at; nothing in the agent runs
TimePasses ==
    /\ clock <= MaxSkew
    /\ clock' = clock + SevenDays + OneMinute
    /\ UNCHANGED validatorVars
    /\ UNCHANGED <<agentVars, active_recommendations, approval_history,
                   last, threadVars>>

ExpiryNext ==
    \/ ApprovalInitializeStep
    \/ \E found \in {<<>>, <<ProdA, ProdB>>},
          mentions \in {<<I(105)>>, <<I(160)>>}, d \in 0..MaxSkew :
          ProcessQuery(QRaise, FALSE, found, FALSE, mentions, d, MaxRecs)
    \/ TimePasses
    \/ \E id \in StoredIds, a \in ExpiryApprovers, dec \in Decisions :
          SubmitApprovalRequest(
              ApprovalRequest(id, a[1], a[2], dec, "reviewed", clock))
    \/ \E role \in {NoStr, "analyst"} : GetPendingApprovals(role)

ExpirySpec == Init /\ [][ExpiryNext]_vars

(***************************************************************************)
(* Approver roles outside the vocabulary: recommendations of several      *)
(* tiers are stored; requests and listings come with an unknown role       *)
(* name, with the empty string, and with a known role.                     *)
(***************************************************************************)
RoleRequests ==
    {ApprovalRequest(id, a[1], a[2], dec, "reviewed", clock) :
        id \in RequestIds,
        a \in {<<"intern_001", "intern">>, <<"anon_001", "">>,
               <<"director_001", "director">>},
        dec \in Decisions}

RoleNext ==
    \/ ApprovalInitializeStep
    \/ \E found \in {<<ProdA, ProdB>>},
          mentions \in {<<I(105)>>, <<I(160)>>} :
          ProcessQuery(QRaise, FALSE, found, FALSE, mentions, 0,
                       MaxApprovalRecs)
    \/ \E req \in RoleRequests : SubmitApprovalRequest(req)
    \/ \E role \in {"intern", "", "analyst"} : GetPendingApprovals(role)

RoleSpec == Init /\ [][RoleNext]_vars

(***************************************************************************)
(* Iteration-2 agent (src/src/pricing_agent.py): run_analysis drives a     *)
(* six-node workflow graph, compiled by LangGraph or, when that import     *)
(* fails, by the fallback MockCompiledGraph.                               *)
(***************************************************************************)
END == "END"

\* _build_graph: the nodes, the entry point and the edges in the order
\* add_edge appends them
nodes == {"analyze_query", "retrieve_data", "generate_recommendation",
          "run_simulation", "prepare_response", "await_approval"}

entry_point == "analyze_query"

edges ==
    <<<<"analyze_query", "retrieve_data">>,
      <<"retrieve_data", "generate_recommendation">>,
      <<"generate_recommendation", "run_simulation">>,
      <<"run_simulation", "prepare_response">>,
      <<"prepare_response", "await_approval">>,
      <<"await_approval", END>>>>

\* MockCompiledGraph.invoke, the for loop: the target of the first edge in
\* the list that leaves current_node, None if no edge leaves it
RECURSIVE FirstEdge(_, _)
FirstEdge(es, current_node) ==
    IF es = <<>> THEN NoStr
    ELSE IF Head(es)[1] = current_node THEN Head(es)[2]
    ELSE FirstEdge(Tail(es), current_node)

\* the compiled LangGraph continues with the targets of the edges that leave
\* the node; every node of this graph has one
Targets(current_node) ==
    {edges[i][2] : i \in {j \in 1..Len(edges) : edges[j][1] = current_node}}

NextNode(engine, current_node) ==
    IF engine = "mock" THEN FirstEdge(edges, current_node)
    ELSE IF Targets(current_node) = {} THEN NoStr
    ELSE CHOOSE n \in Targets(current_node) : TRUE

\* the while condition of invoke: a node is set, is not END and is known
Continues(node) == node # NoStr /\ node # END /\ node \in nodes

\* run_analysis: the PricingAgentState the graph starts with
initial_state(user_query) ==
    [messages |-> <<>>, user_query |-> user_query,
     products_analyzed |-> <<>>, competitor_data |-> <<>>,
     sales_data |-> <<>>, recommendations |-> <<>>, simulations |-> <<>>,
     conversation_history |-> <<>>, approval_required |-> TRUE,
     final_response |-> "", next_action |-> "analyze_query"]

analyze_query(state) ==
    [state EXCEPT !.conversation_history = @ \o <<"User Query", "Analysis">>,
                  !.messages = Append(@, "system"),
                  !.next_action = "retrieve_data"]

\* found: per product retrieved, the product and its competitor prices
RECURSIVE CompetitorsOf(_)
CompetitorsOf(found) ==
    IF found = <<>> THEN <<>>
    ELSE Head(found).competitors \o CompetitorsOf(Tail(found))

retrieve_data(state, found) ==
    [state EXCEPT
        !.products_analyzed = [i \in 1..Len(found) |-> found[i].product],
        !.competitor_data = @ \o CompetitorsOf(found),
        !.sales_data = @ \o [i \in 1..Len(found) |-> found[i].product.sku],
        !.conversation_history = Append(@, "Data Retrieval"),
        !.messages = Append(@, "system"),
        !.next_action = "generate_recommendation"]

\* lines 223-225: for each product the filter of the list comprehension
\* calls any() on a bool, which raises TypeError as soon as the
\* comprehension has one competitor price to test
RelevantCompetitorsRaises(state) ==
    state.products_analyzed # <<>> /\ state.competitor_data # <<>>

\* lines 266-278: the price of the last response line that names one, the
\* current price if none does (mentions: the prices on such lines)
ParsedPrice(product, mentions) ==
    IF mentions = <<>> THEN product.current_price
    ELSE mentions[Len(mentions)]

Recommend(product, mentions) ==
    [sku |-> product.sku, current_price |-> product.current_price,
     recommended_price |-> ParsedPrice(product, mentions),
     price_change_percent |->
         RMul(RDiv(RSub(ParsedPrice(product, mentions),
                        product.current_price),
                   product.current_price), I(100)),
     confidence_score |-> Rat(8, 10)]

generate_recommendation(state, mentions) ==
    [state EXCEPT
        !.recommendations =
            [i \in 1..Len(state.products_analyzed) |->
                Recommend(state.products_analyzed[i], mentions)],
        !.conversation_history = Append(@, "Recommendations"),
        !.messages = Append(@, "assistant"),
        !.next_action = "run_simulation"]

\* FinancialSimulationTool._run: the risk level of the price change
SimulationRisk(rec) ==
    IF RLe(RAbs(rec.price_change_percent), I(5)) THEN "Low"
    ELSE IF RLe(RAbs(rec.price_change_percent), I(15)) THEN "Medium"
    ELSE "High"

Simulated(rec) == [sku |-> rec.sku, risk_level |-> SimulationRisk(rec)]

\* a simulation per recommendation whose product and sales data are found
\* and whose simulation does not raise (a zero current price divides by 0)
HasSimulation(state, rec) ==
    /\ \E i \in 1..Len(state.products_analyzed) :
          state.products_analyzed[i].sku = rec.sku
    /\ \E i \in 1..Len(state.sales_data) : state.sales_data[i] = rec.sku
    /\ rec.current_price # I(0)

RECURSIVE Simulations(_, _)
Simulations(state, recs) ==
    IF recs = <<>> THEN <<>>
    ELSE (IF HasSimulation(state, Head(recs))
          THEN <<Simulated(Head(recs))>> ELSE <<>>)
         \o Simulations(state, Tail(recs))

run_simulation(state) ==
    [state EXCEPT
        !.simulations = Simulations(state, state.recommendations),
        !.conversation_history = Append(@, "Simulations"),
        !.messages = Append(@, "system"),
        !.next_action = "prepare_response"]

prepare_response(state) ==
    [state EXCEPT !.final_response = "Pricing Analysis Report",
                  !.approval_required = TRUE,
                  !.messages = Append(@, "assistant"),
                  !.next_action = "await_approval"]

await_approval(state) ==
    [state EXCEPT
        !.conversation_history = Append(@, "awaiting human approval"),
        !.messages = Append(@, "system")]

\* run_analysis, lines 438-444: the dictionary returned
ResultOf(final_state) ==
    [response |-> final_state.final_response,
     recommendations |-> final_state.recommendations,
     simulations |-> final_state.simulations,
     conversation_history |-> final_state.conversation_history,
     approval_required |-> final_state.approval_required]

iteration1Vars ==
    <<has_key, llm, use_vector_store, initialized, active_recommendations,
      approval_history, clock, last, pc, treq, tret, observed,
      candidate, validation, clamped, assessed>>

Running ==
    /\ analysis.engine # "none"
    /\ analysis.raised = "none"
    /\ analysis.result = <<>>

\* run_analysis is entered: the initial state is built and the graph is
\* invoked at its entry point.  Which graph implementation is in use is
\* settled when the module is imported.
RunAnalysis(engine, user_query) ==
    /\ ~Running
    /\ analysis.engine \in {"none", engine}
    /\ analysis' = [engine |-> engine, node |-> entry_point,
                    visited |-> <<>>, raised |-> "none",
                    state |-> <<initial_state(user_query)>>,
                    result |-> <<>>]
    /\ UNCHANGED iteration1Vars

\* one turn of the graph: the node function returns and the graph moves to
\* the next node
NodeReturns(name, new_state) ==
    /\ analysis' = [analysis EXCEPT
                       !.state = <<new_state>>,
                       !.visited = Append(@, name),
                       !.node = NextNode(analysis.engine, name)]
    /\ UNCHANGED iteration1Vars

\* the node function raises: nothing in invoke or run_analysis catches it
NodeRaises(name, exception) ==
    /\ analysis' = [analysis EXCEPT !.visited = Append(@, name),
                                    !.raised = exception]
    /\ UNCHANGED iteration1Vars

AtNode(name) == Running /\ Continues(analysis.node) /\ analysis.node = name

AnalyzeQuery(llm_fails) ==
    /\ AtNode("analyze_query")
    /\ IF llm_fails
       THEN NodeRaises("analyze_query", "llm")
       ELSE NodeReturns("analyze_query", analyze_query(analysis.state[1]))

RetrieveData(found) ==
    /\ AtNode("retrieve_data")
    /\ NodeReturns("retrieve_data", retrieve_data(analysis.state[1], found))

GenerateRecommendationNode(llm_fails, mentions) ==
    /\ AtNode("generate_recommendation")
    /\ IF RelevantCompetitorsRaises(analysis.state[1])
       THEN NodeRaises("generate_recommendation", "TypeError")
       ELSE IF llm_fails /\ analysis.state[1].products_analyzed # <<>>
       THEN NodeRaises("generate_recommendation", "llm")
       ELSE NodeReturns("generate_recommendation",
                        generate_recommendation(analysis.state[1], mentions))

RunSimulation ==
    /\ AtNode("run_simulation")
    /\ NodeReturns("run_simulation", run_simulation(analysis.state[1]))

PrepareResponse ==
    /\ AtNode("prepare_response")
    /\ NodeReturns("prepare_response", prepare_response(analysis.state[1]))

AwaitApproval ==
    /\ AtNode("await_approval")
    /\ NodeReturns("await_approval", await_approval(analysis.state[1]))

\* the loop of invoke ends and run_analysis returns its dictionary
ReturnResult ==
    /\ Running
    /\ ~Continues(analysis.node)
    /\ analysis' = [analysis EXCEPT !.result = <<ResultOf(analysis.state[1])>>]
    /\ UNCHANGED iteration1Vars

Headphones == [sku |-> "SKU12345", current_price |-> I(100), cost |-> I(45)]
Shoes == [sku |-> "SKU67890", current_price |-> I(130), cost |-> I(65)]

\* retrieve_product_info returns at least one product (the mock data stand
\* in for an empty search); a product comes with or without competitor
\* prices
GraphRetrievals ==
    {<<[product |-> Headphones, competitors |-> <<>>]>>,
     <<[product |-> Headphones, competitors |-> <<"Amazon", "Best Buy">>]>>,
     <<[product |-> Shoes, competitors |-> <<>>]>>,
     <<[product |-> Headphones, competitors |-> <<>>],
       [product |-> Shoes, competitors |-> <<>>]>>,
     <<[product |-> Headphones, competitors |-> <<>>],
       [product |-> Shoes, competitors |-> <<"Amazon">>]>>}

GraphResponses == {<<>>, <<I(95)>>, <<I(120), I(110)>>, <<I(150)>>}

GraphNext ==
    \/ \E engine \in {"langgraph", "mock"} :
          RunAnalysis(engine,
              "What is the recommended price for wireless headphones?")
    \/ \E llm_fails \in BOOLEAN : AnalyzeQuery(llm_fails)
    \/ \E found \in GraphRetrievals : RetrieveData(found)
    \/ \E llm_fails \in BOOLEAN, mentions \in GraphResponses :
          GenerateRecommendationNode(llm_fails, mentions)
    \/ RunSimulation
    \/ PrepareResponse
    \/ AwaitApproval
    \/ ReturnResult

\* PricingAgent.__init__ requires an API key
GraphInit == Init /\ has_key = TRUE

GraphSpec == GraphInit /\ [][GraphNext]_vars

(***************************************************************************)
(* The revenue validator on its own: _validate_revenue_maximization        *)
(* applied to one recommendation drawn from a grid of products and prices  *)
(***************************************************************************)
MaxPriceStep == 16    \* candidate prices 0, 10, ..., 10 * MaxPriceStep

ValidatorSales == {<<0, 0, 0, 0, 0, 0>>, <<1, 0, 0, 0, 0, 0>>,
                   <<10, 10, 10, 10, 10, 10>>}

ValidatorProducts ==
    {ProdA, ProdB} \cup
    {Product("V", I(40), I(cur), <<>>, I(30), 100, sales, elast) :
        cur \in {50, 100}, sales \in ValidatorSales,
        elast \in {Rat(-1, 2), I(-2)}}

ValidatorPrices ==
    {None, I(20), I(99)} \cup {I(10 * k) : k \in 0..MaxPriceStep}

\* the recommendations process_query hands to the validator: what the
\* suggestion step returned for the retrieved products
ValidatorInputs ==
    {PricingRecommendation(QRaise, products, "Recommended price", <<>>,
                           "Market analysis", Rat(8, 10), price, 0) :
        products \in {<<>>} \cup {<<p>> : p \in ValidatorProducts},
        price \in ValidatorPrices}

ValidatorInit ==
    /\ has_key = FALSE
    /\ llm = FALSE
    /\ use_vector_store = TRUE
    /\ initialized = FALSE
    /\ active_recommendations = <<>>
    /\ approval_history = <<>>
    /\ clock = 0
    /\ last = NoCall
    /\ pc = [t \in Threads |-> "idle"]
    /\ treq = [t \in Threads |-> <<>>]
    /\ tret = [t \in Threads |-> "none"]
    /\ observed = <<>>
    /\ candidate \in {<<rec>> : rec \in ValidatorInputs}
    /\ validation = <<>>
    /\ clamped = <<>>
    /\ assessed = <<>>
    /\ analysis = NoAnalysis

ValidateStep ==
    /\ validation = <<>>
    /\ validation' = <<ValidateRevenueMaximization(candidate[1])>>
    /\ UNCHANGED <<agentVars, active_recommendations, approval_history,
                   clock, last, threadVars, candidate, clamped, assessed,
                   analysis>>

ValidatorNext == ValidateStep

ValidatorSpec == ValidatorInit /\ [][ValidatorNext]_vars

(***************************************************************************)
(* The guardrail cascade and the risk classification on their own:         *)
(* _apply_enhanced_guardrails applied to one recommendation, then again to *)
(* its own output, and _assess_risk_and_approval applied to the same       *)
(* recommendation, over a grid of products, prices and confidence scores   *)
(***************************************************************************)
\* products with current_price > 0 and cost_price >= 0: the catalogue items,
\* a high-margin item, items priced below cost, a free-to-make item, a
\* penny-cost item and an item priced under the absolute minimum
CascadeProducts ==
    {ProdA, ProdB, ProdC, ProdD,
     Product("E", I(60), I(50), <<>>, I(30), 500, <<1, 1, 1, 1, 1, 0>>, I(-1)),
     Product("F", I(80), I(50), <<>>, I(30), 500, <<1, 1, 1, 1, 1, 0>>, I(-1)),
     Product("G", I(0), I(10), <<>>, I(30), 500, <<1, 1, 1, 1, 1, 0>>, I(-1)),
     Product("H", Rat(1, 20), I(10), <<>>, I(30), 500, <<1, 1, 1, 1, 1, 0>>, I(-1)),
     Product("J", Rat(1, 10), Rat(1, 5), <<>>, I(30), 500, <<1, 1, 1, 1, 1, 0>>, I(-1))}

CascadePrices ==
    ValidatorPrices \cup
    {I(-5), Rat(1, 10), Rat(1, 4), Rat(1, 2), I(1), I(5), I(45), I(55),
     I(1120), I(3000)}

CascadeConfidences == {Rat(1, 2), Rat(3, 4), Rat(8, 10)}

CascadeInputs ==
    {PricingRecommendation(QRaise, <<p>>, "Recommended price", <<>>,
                           "Market analysis", confidence, price, 0) :
        p \in CascadeProducts, price \in CascadePrices,
        confidence \in CascadeConfidences}

CascadeInit ==
    /\ has_key = FALSE
    /\ llm = FALSE
    /\ use_vector_store = TRUE
    /\ initialized = FALSE
    /\ active_recommendations = <<>>
    /\ approval_history = <<>>
    /\ clock = 0
    /\ last = NoCall
    /\ pc = [t \in Threads |-> "idle"]
    /\ treq = [t \in Threads |-> <<>>]
    /\ tret = [t \in Threads |-> "none"]
    /\ observed = <<>>
    /\ candidate \in {<<rec>> : rec \in CascadeInputs}
    /\ validation = <<>>
    /\ clamped = <<>>
    /\ assessed = <<>>
    /\ analysis = NoAnalysis

\* one call of _apply_enhanced_guardrails: on the candidate first, then on
\* the recommendation the previous call returned
ClampStep ==
    /\ Len(clamped) < 2
    /\ clamped' = Append(clamped,
           ApplyEnhancedGuardrails(IF clamped = <<>> THEN candidate[1]
                                   ELSE clamped[Len(clamped)]))
    /\ UNCHANGED <<agentVars, active_recommendations, approval_history,
                   clock, last, threadVars, candidate, validation, assessed,
                   analysis>>

\* one call of _assess_risk_and_approval on the candidate
AssessStep ==
    /\ assessed = <<>>
    /\ assessed' = <<AssessRiskAndApproval(candidate[1], clock)>>
    /\ UNCHANGED <<agentVars, active_recommendations, approval_history,
                   clock, last, threadVars, candidate, validation, clamped,
                   analysis>>

CascadeNext == ClampStep \/ AssessStep

CascadeSpec == CascadeInit /\ [][CascadeNext]_vars

(***************************************************************************)
(* Properties of the approval workflow (ApprovalSpec)                      *)
(***************************************************************************)
\* The authority ordering the specification states:
\* analyst < senior_analyst < manager < director
FourRoles == {"analyst", "senior_analyst", "manager", "director"}
RoleOrder(r) ==
    CASE r = "analyst" -> 1
      [] r = "senior_analyst" -> 2
      [] r = "manager" -> 3
      [] r = "director" -> 4

IsPending(id) == IsPendingIn(active_recommendations, id)

\* some successful approval action on id is in the history
Resolved(id) ==
    \E i \in 1..Len(approval_history) :
        approval_history[i].recommendation_id = id

ApprovalFields(rec) ==
    <<rec.approval_status, rec.approval_notes, rec.approved_by, rec.approved_at>>

\* a recommendation with its four approval fields blanked
NonApprovalFields(rec) ==
    [rec EXCEPT !.approval_status = "pending", !.approval_notes = NoStr,
                !.approved_by = NoStr, !.approved_at = NoTime]

\* C1: on a stored pending recommendation, submit_approval_request by one of
\* the four roles returns True exactly when the role's rank is at least the
\* rank of the recommendation's approval_threshold.
C1_AuthorityMonotonicity ==
    [][\A req \in ApprovalRequests :
          (/\ SubmitApprovalRequest(req)
           /\ req.recommendation_id \in StoredIds
           /\ req.approver_role \in FourRoles
           /\ IsPending(req.recommendation_id))
          => (last'.ok <=>
                RoleOrder(req.approver_role) >=
                RoleOrder(active_recommendations[req.recommendation_id]
                              .approval_threshold))]_vars

\* C1 witness: a manager has resolved a pending recommendation whose
\* threshold is manager (equal ranks), and one whose threshold is director
\* has been resolved by a director
C1_Witness ==
    /\ last.op = "submit_approval_request" /\ last.ok
    /\ Len(approval_history) = 2
    /\ approval_history[1].approver_role = "manager"
    /\ active_recommendations[approval_history[1].recommendation_id]
           .approval_threshold = "manager"
    /\ approval_history[2].approver_role = "director"
    /\ approval_history[2].recommendation_id
           # approval_history[1].recommendation_id
    /\ active_recommendations[approval_history[2].recommendation_id]
           .approval_threshold = "director"

\* C2 (as claimed): once an approval action succeeded for an id, no later
\* action on that id succeeds and the entry's four approval fields keep
\* their values.
C2_TerminalOnceResolved ==
    [][\A id \in StoredIds :
          Resolved(id) =>
            /\ ApprovalFields(active_recommendations'[id])
                   = ApprovalFields(active_recommendations[id])
            /\ ~(/\ Len(approval_history') = Len(approval_history) + 1
                 /\ approval_history'[Len(approval_history')]
                        .recommendation_id = id)]_vars

\* C4: a submit_approval_request on an unknown id, or by a role ranked below
\* the threshold, returns False and leaves the store as it was.
C4_FailureLeavesStore ==
    [][\A req \in ApprovalRequests :
          (/\ SubmitApprovalRequest(req)
           /\ \/ req.recommendation_id \notin StoredIds
              \/ /\ req.approver_role \in FourRoles
                 /\ RoleOrder(req.approver_role) <
                    RoleOrder(active_recommendations[req.recommendation_id]
                                  .approval_threshold))
          => /\ last'.ok = FALSE
             /\ active_recommendations' = active_recommendations]_vars

\* C4 witness: a submit has just failed while a recommendation that needs a
\* manager is stored and still pending
C4_Witness ==
    /\ last.op = "submit_approval_request" /\ ~last.ok
    /\ approval_history = <<>>
    /\ \E id \in StoredIds :
          /\ active_recommendations[id].approval_threshold = "manager"
          /\ active_recommendations[id].approval_status = "pending"

\* C5: every attempt against a stored id is appended to the approval
\* history, whether or not it succeeded.
C5_EveryAttemptLogged ==
    [][\A req \in ApprovalRequests :
          (SubmitApprovalRequest(req) /\ req.recommendation_id \in StoredIds)
          => approval_history' = Append(approval_history, req)]_vars

\* C7: a successful submit_approval_request changes nothing but the four
\* approval fields of the entry it names; every other field of that entry
\* and every other entry stay the same.
C7_SuccessFrame ==
    [][\A req \in ApprovalRequests :
          (SubmitApprovalRequest(req) /\ last'.ok)
          => /\ DOMAIN active_recommendations' = StoredIds
             /\ \A id \in StoredIds :
                   IF id = req.recommendation_id
                   THEN NonApprovalFields(active_recommendations'[id])
                            = NonApprovalFields(active_recommendations[id])
                   ELSE active_recommendations'[id]
                            = active_recommendations[id]]_vars

\* C7 witness: two entries are stored; a submit has just resolved one and
\* the other is still pending
C7_Witness ==
    /\ last.op = "submit_approval_request" /\ last.ok
    /\ Cardinality(StoredIds) = 2
    /\ \E id \in StoredIds : Resolved(id) /\ ~IsPending(id)
    /\ \E id \in StoredIds : ~Resolved(id) /\ IsPending(id)

(***************************************************************************)
(* Properties of concurrent approval actions (ConcSpec)                    *)
(***************************************************************************)
Authorized(req) ==
    /\ req.recommendation_id \in StoredIds
    /\ req.approver_role \in FourRoles
    /\ RoleOrder(req.approver_role) >=
       RoleOrder(active_recommendations[req.recommendation_id]
                     .approval_threshold)

\* both threads have returned from calls that named the same id and that
\* both began while that entry was pending, at least one of them authorized
TwoCallsOnPendingDone ==
    /\ \A t \in Threads : pc[t] = "idle" /\ treq[t] # <<>> /\ tret[t] # "none"
    /\ TheReq(1).recommendation_id = TheReq(2).recommendation_id
    /\ \A t \in Threads : treq[t][1].pending_at_call
    /\ \E t \in Threads : Authorized(TheReq(t))

\* C3 (as claimed): of two submit_approval_request calls racing on the same
\* pending id, exactly one returns True.
C3_SingleResolution ==
    TwoCallsOnPendingDone =>
        Cardinality({t \in Threads : tret[t] = "True"}) = 1

\* C6 (as claimed): a reader never sees approval_status = approved without
\* approved_by and approved_at.
C6_ReaderSeesWholeDecision ==
    (observed # <<>> /\ observed[1] = "approved")
        => (observed[2] # NoStr /\ observed[3] # NoTime)

(***************************************************************************)
(* Properties of process_query (Spec)                                      *)
(***************************************************************************)
\* the query a returned recommendation answers
QueryOf(rec) == CHOOSE q \in Queries : q.query = rec.query

Ran(stage) == \E i \in 1..Len(last.calls) : last.calls[i] = stage

LaterStages == {"vector_store", "simple_retriever", "rules", "llm",
                "fallback", "revenue", "guardrails", "risk", "store"}

\* the last call was a process_query that the topic check or the fraud
\* check rejected
InputRejected ==
    /\ last.op = "process_query" /\ last.rec # <<>>
    /\ \/ ValidatePricingTopic(QueryOf(last.rec[1])) # NoStr
       \/ ValidateFraudulentPricing(QueryOf(last.rec[1])) # NoStr

\* what C8 says of such a call, the expiry aside: the topic check ran first,
\* the fraud check only if the topic check passed, no later stage ran, and
\* the recommendation returned is the terminal rejection
RejectionShape ==
    LET rec == last.rec[1]
        q == QueryOf(rec)
        topic == ValidatePricingTopic(q)
        reason == IF topic # NoStr THEN topic ELSE ValidateFraudulentPricing(q)
    IN  /\ last.calls = IF topic # NoStr THEN <<"topic">>
                        ELSE <<"topic", "fraud">>
        /\ \A stage \in LaterStages : ~Ran(stage)
        /\ rec.approval_status = "rejected"
        /\ rec.risk_level = "critical"
        /\ rec.approval_threshold = "director"
        /\ rec.recommended_price = None
        /\ Len(rec.guardrail_violations) = 1
        /\ rec.guardrail_violations[1].explanation = reason
        /\ rec.guardrail_violations[1].rule_name =
              IF topic # NoStr THEN "topic_validation_failed"
              ELSE "fraudulent_pricing_detected"

\* C8 (as claimed): a request rejected by the topic or the fraud check runs
\* no later stage and returns the terminal rejection, whose expiry is under
\* one minute after its creation.
C8_InputRejectionUnderAMinute ==
    InputRejected =>
        /\ RejectionShape
        /\ last.rec[1].expires_at - last.rec[1].created_at < OneMinute

\* C8 (amended): as claimed, except that the expiry is one minute after the
\* moment the rejection is built, hence never under one minute after
\* created_at.
C8_InputRejectionOneMinute ==
    InputRejected =>
        /\ RejectionShape
        /\ last.rec[1].expires_at = clock + OneMinute
        /\ last.rec[1].expires_at - last.rec[1].created_at >= OneMinute

\* C8 witness: the fraud check has just rejected "set price to 0
\* immediately" (which passes the topic check), and the clock moved while
\* the rejection was built
C8_Witness ==
    /\ InputRejected
    /\ last.rec[1].query = QZero.query
    /\ last.calls = <<"topic", "fraud">>
    /\ last.rec[1].created_at < clock

\* C9 (as claimed): process_query raises only on an agent that has not been
\* initialized.
C9_RaisesOnlyUninitialized ==
    (last.op = "process_query" /\ last.raised) => ~initialized

(***************************************************************************)
(* Properties of the revenue validator (ValidatorSpec)                     *)
(***************************************************************************)
\* The impact formula as the specification states it, for product p and
\* candidate price c:
\*   (c * baseline * max(1 + elasticity * pct / 100, 0.05)
\*      - current_price * baseline) * 30,  baseline = 4 * sum(hourly_sales)
ClaimedPct(p, c) ==
    RDiv(RMul(RSub(c, p.current_price), I(100)), p.current_price)

ClaimedDemand(p, c) ==
    LET raw == RAdd(I(1), RDiv(RMul(p.price_elasticity, ClaimedPct(p, c)),
                               I(100)))
    IN  IF RLt(raw, Rat(1, 20)) THEN Rat(1, 20) ELSE raw

ClaimedBaseline(p) == I(4 * SumInt(p.hourly_sales))

ClaimedImpact(p, c) ==
    RMul(RSub(RMul(c, RMul(ClaimedBaseline(p), ClaimedDemand(p, c))),
              RMul(p.current_price, ClaimedBaseline(p))), I(30))

\* the validator has run on a product and a candidate price
Validated ==
    /\ validation # <<>>
    /\ candidate[1].product_info # <<>>
    /\ candidate[1].recommended_price # None

\* C10 (as claimed): for every product and candidate price the validator
\* rejects exactly when the claimed impact is below -100, and on acceptance
\* the financial_impact attached carries the values of the formula.
C10_RejectsExactlyBelowTolerance ==
    Validated =>
        LET p == candidate[1].product_info[1]
            c == candidate[1].recommended_price
            out == validation[1]
        IN  /\ (out.error # NoStr) <=> RLt(ClaimedImpact(p, c), I(-100))
            /\ out.error = NoStr =>
                /\ out.rec.financial_impact # None
                /\ LET fi == out.rec.financial_impact[1]
                   IN  /\ fi.price_change_percent = ClaimedPct(p, c)
                       /\ fi.price_change_amount = RSub(c, p.current_price)
                       /\ fi.estimated_monthly_revenue_impact =
                              ClaimedImpact(p, c)
                       /\ fi.estimated_daily_sales =
                              RMul(ClaimedBaseline(p), ClaimedDemand(p, c))

(***************************************************************************)
(* Properties of the pipeline order (Spec)                                 *)
(***************************************************************************)
\* the last call was a process_query whose suggestion step returned a
\* candidate price for a product
Suggested ==
    /\ last.op = "process_query" /\ last.suggested # <<>>
    /\ last.suggested[1] # <<>> /\ last.suggested[2] # None

SuggestedProduct == last.suggested[1][1]
SuggestedPrice == last.suggested[2]

\* the candidate's projected monthly revenue impact is below -100
RevenueNegative ==
    Suggested /\ RLt(ClaimedImpact(SuggestedProduct, SuggestedPrice), I(-100))

Before(a, b) ==
    \E i, j \in 1..Len(last.calls) :
        i < j /\ last.calls[i] = a /\ last.calls[j] = b

\* the financial_impact is the one the revenue validation attached (it alone
\* records the daily revenues); a recommendation without a candidate price
\* skips the validation and gets its figures from the risk assessment
GateFigures(rec) ==
    /\ rec.financial_impact # None
    /\ "current_daily_revenue" \in DOMAIN rec.financial_impact[1]

PassedCascade(rec) ==
    /\ rec.product_info # <<>>
    /\ GuardrailCascade(rec, rec.product_info[1]).price = rec.recommended_price

\* C15: every stored recommendation with a non-null recommended_price has
\* had the guardrail cascade's checks evaluated on that price before it was
\* stored, on every path of process_query (language model or rule-based,
\* products found or not)
C15_StoredPricePassedCascade ==
    \A id \in StoredIds :
        active_recommendations[id].recommended_price # None
            => PassedCascade(active_recommendations[id])

\* the risk table of the claim, read on the final price of a recommendation
FinalChange(rec) ==
    RAbs(RSub(rec.recommended_price, rec.product_info[1].current_price))

FinalPct(rec) ==
    RMul(RDiv(FinalChange(rec), rec.product_info[1].current_price), I(100))

ClaimedTier(rec) ==
    IF RGe(FinalPct(rec), I(40)) THEN "critical"
    ELSE IF RGe(FinalPct(rec), I(25)) \/ RGt(FinalChange(rec), I(100))
    THEN "high"
    ELSE IF \/ RGe(FinalPct(rec), I(10))
            \/ RLt(rec.confidence_score, Rat(8, 10))
            \/ RGt(RAbs(rec.financial_impact[1].estimated_monthly_revenue_impact),
                   I(10000))
            \/ RGt(rec.product_info[1].current_price, I(500))
    THEN "medium"
    ELSE "low"

Priced(rec) == rec.product_info # <<>> /\ rec.recommended_price # None

\* C17: the risk tier of a stored recommendation is the first matching row
\* of the risk table evaluated on the final, clamped recommended_price,
\* also when the guardrail cascade changed the candidate price
C17_TierOfFinalPrice ==
    \A id \in StoredIds :
        Priced(active_recommendations[id])
            => active_recommendations[id].risk_level
                   = ClaimedTier(active_recommendations[id])

(***************************************************************************)
(* Properties of the guardrail cascade (CascadeSpec)                       *)
(***************************************************************************)
CascadeProduct == candidate[1].product_info[1]
ClampedOnce == Len(clamped) >= 1
ClampedTwice == Len(clamped) = 2
FinalPrice == clamped[1].recommended_price

\* C12: for every product with current_price > 0 and cost_price >= 0 and
\* every candidate price (None, zero and negative included), applying
\* _apply_enhanced_guardrails to the price it already produced for that
\* product returns the same recommended_price
C12_ClampingIdempotent ==
    ClampedTwice => clamped[2].recommended_price = clamped[1].recommended_price

\* the first pass moved the candidate, the second pass fired a guardrail
\* again, and the price stayed
C12_Witness ==
    /\ ClampedTwice
    /\ candidate[1].recommended_price # FinalPrice
    /\ \E i \in 1..Len(clamped[2].guardrail_violations) :
           clamped[2].guardrail_violations[i].rule_name = "maximum_price_change"
    /\ clamped[2].recommended_price = FinalPrice

FiredRules ==
    [i \in 1..Len(clamped[1].guardrail_violations) |->
        clamped[1].guardrail_violations[i].rule_name]

Fired(rule) == \E i \in 1..Len(FiredRules) : FiredRules[i] = rule

MinimumMarkupPrice == RMul(CascadeProduct.cost_price, Rat(105, 100))

\* C13: for every product with current_price > 0 and cost >= 0 and every
\* candidate price, the price the cascade returns is at least cost * 1.05,
\* although the maximum-swing and margin clamps run after the
\* minimum-markup clamp
C13_FinalPriceCoversMarkup ==
    ClampedOnce => RGe(FinalPrice, MinimumMarkupPrice)

\* the maximum-swing clamp took the price below cost * 1.05 and the margin
\* clamp brought it back
C13_Witness ==
    /\ ClampedOnce
    /\ \E i \in 1..Len(FiredRules) :
          /\ FiredRules[i] = "maximum_price_change"
          /\ RLt(clamped[1].guardrail_violations[i].adjusted_value,
                 MinimumMarkupPrice)
    /\ Fired("minimum_margin")
    /\ RGe(FinalPrice, MinimumMarkupPrice)

\* C14: for every product with current_price > 0 and cost >= 0 and every
\* candidate price, the price the cascade returns is at least the absolute
\* floor 0.50, although the maximum-swing and maximum-margin clamps run
\* after the absolute-floor clamp
C14_FinalPriceAboveFloor ==
    ClampedOnce => RGe(FinalPrice, Rat(1, 2))

\* Scenario C: current_price 100, cost 40, target margin 30, candidate 10,
\* a confidence that raises no low-confidence note
ScenarioC ==
    /\ ClampedOnce
    /\ CascadeProduct.current_price = I(100)
    /\ CascadeProduct.cost_price = I(40)
    /\ CascadeProduct.target_margin_percent = I(30)
    /\ candidate[1].recommended_price = I(10)
    /\ candidate[1].confidence_score = Rat(8, 10)

\* C16 as stated: in Scenario C the cascade fires the extreme-drop clamp
\* and returns price 50 with exactly one violation, of severity critical
C16_ExtremeDropClampFires ==
    ScenarioC =>
        /\ FinalPrice = I(50)
        /\ FiredRules = <<"extreme_price_reduction_protection">>
        /\ clamped[1].guardrail_violations[1].severity = "critical"

\* C16 amended: in Scenario C the extreme-drop clamp does not fire (10 is
\* not below 10% of 100); the cascade returns price 50 with exactly two
\* violations, minimum_cost_margin (high, 10 to 42) and
\* maximum_price_change (medium, 42 to 50)
C16_MarkupThenSwing ==
    ScenarioC =>
        /\ FinalPrice = I(50)
        /\ FiredRules = <<"minimum_cost_margin", "maximum_price_change">>
        /\ clamped[1].guardrail_violations[1].severity = "high"
        /\ clamped[1].guardrail_violations[1].original_value = I(10)
        /\ clamped[1].guardrail_violations[1].adjusted_value = I(42)
        /\ clamped[1].guardrail_violations[2].severity = "medium"
        /\ clamped[1].guardrail_violations[2].original_value = I(42)
        /\ clamped[1].guardrail_violations[2].adjusted_value = I(50)

C16_Witness == ScenarioC /\ FinalPrice = I(50) /\ Len(FiredRules) = 2

(***************************************************************************)
(* Properties of the risk classification (CascadeSpec)                     *)
(***************************************************************************)
\* Scenario E: +12% on an item priced 1,000, confidence 0.75
ScenarioE ==
    /\ assessed # <<>>
    /\ CascadeProduct.current_price = I(1000)
    /\ candidate[1].recommended_price = RMul(I(1000), Rat(112, 100))
    /\ candidate[1].confidence_score = Rat(3, 4)

\* C18 as stated: a price change of +12% on an item whose current price
\* is 1,000, with confidence 0.75, is classified medium / senior_analyst
C18_TwelvePercentIsMedium ==
    ScenarioE =>
        /\ assessed[1].risk_level = "medium"
        /\ assessed[1].approval_threshold = "senior_analyst"

\* C18 amended: that change is classified high / manager, because its
\* absolute amount, 120, is above the 100 limit of the high row
C18_TwelvePercentIsHigh ==
    ScenarioE =>
        /\ assessed[1].risk_level = "high"
        /\ assessed[1].approval_threshold = "manager"
        /\ assessed[1].financial_impact[1].price_change_percent = I(12)
        /\ assessed[1].financial_impact[1].price_change_amount = I(120)

C18_Witness == ScenarioE /\ assessed[1].risk_level = "high"

(***************************************************************************)
(* Properties of the risk pairing and the pending list (WorkflowSpec)      *)
(***************************************************************************)
Paired(rec) ==
    <<rec.risk_level, rec.approval_threshold>> \in
        {<<"critical", "director">>, <<"high", "manager">>,
         <<"medium", "senior_analyst">>, <<"low", "analyst">>}

\* C19: every recommendation process_query returns and every entry of the
\* store has risk_level and approval_threshold paired as critical-director,
\* high-manager, medium-senior_analyst or low-analyst; no step changes
\* either field of an entry, submit_approval_request included
C19_RiskAndThresholdPaired ==
    [][/\ \A id \in DOMAIN active_recommendations' :
            Paired(active_recommendations'[id])
       /\ (last'.op = "process_query" /\ last'.rec # <<>>)
              => Paired(last'.rec[1])
       /\ \A id \in StoredIds :
            /\ active_recommendations'[id].risk_level =
                   active_recommendations[id].risk_level
            /\ active_recommendations'[id].approval_threshold =
                   active_recommendations[id].approval_threshold]_vars

\* a high / manager entry has just been resolved and keeps its pair
C19_Witness ==
    /\ last.op = "submit_approval_request" /\ last.ok
    /\ \E id \in StoredIds :
          /\ active_recommendations[id].approval_status # "pending"
          /\ active_recommendations[id].risk_level = "high"
          /\ active_recommendations[id].approval_threshold = "manager"

Listed == {last.rec[i] : i \in 1..Len(last.rec)}

PendingEntries ==
    {active_recommendations[id] : id \in {i \in StoredIds : IsPending(i)}}

\* C20: get_pending_approvals(role) returns exactly the stored entries that
\* are pending and whose approval_threshold the role may resolve
\* (order(role) >= order(threshold)); without a role it returns every
\* pending entry; a resolved entry is not returned
C20_PendingListing ==
    last.op = "get_pending_approvals" =>
        /\ Len(last.rec) = Cardinality(Listed)
        /\ last.role \in FourRoles =>
               Listed = {rec \in PendingEntries :
                            RoleOrder(last.role) >=
                                RoleOrder(rec.approval_threshold)}
        /\ last.role = NoStr => Listed = PendingEntries
        /\ \A rec \in Listed : rec.approval_status = "pending"

\* the manager's list holds a pending manager-tier entry and leaves out
\* the entry the director has resolved
C20_Witness ==
    /\ last.op = "get_pending_approvals" /\ last.role = "manager"
    /\ \E rec \in Listed : rec.approval_threshold = "manager"
    /\ \E id \in StoredIds :
          /\ ~IsPending(id) /\ Resolved(id)
          /\ active_recommendations[id] \notin Listed

(***************************************************************************)
(* Properties of the pipeline's outcomes (Spec)                            *)
(***************************************************************************)
\* the suggestion step ran on an empty product list
NoProductsFound ==
    /\ last.op = "process_query"
    /\ last.suggested # <<>>
    /\ last.suggested[1] = <<>>

\* C21: when retrieval returns no products, process_query does not fail and
\* returns a recommendation with confidence_score 0 and no recommended
\* price, on the language-model path and on the rule-based path alike
C21_NoProductsZeroConfidence ==
    NoProductsFound =>
        /\ last.ok /\ ~last.raised /\ last.rec # <<>>
        /\ last.rec[1].confidence_score = I(0)
        /\ last.rec[1].recommended_price = None

(***************************************************************************)
(* Properties of the expiry (ExpirySpec)                                   *)
(***************************************************************************)
Expired(rec) == rec.expires_at # NoTime /\ clock > rec.expires_at

NewIds == DOMAIN active_recommendations' \ StoredIds

SubmitOn(id) ==
    /\ last'.op = "submit_approval_request"
    /\ approval_history' # approval_history
          => approval_history'[Len(approval_history')].recommendation_id = id

\* C22: a recommendation stored by the normal flow expires 7 days after its
\* risk assessment; time passing beyond expires_at changes no field of a
\* stored entry, no step sets approval_status to expired, an expired
\* pending entry is still listed by get_pending_approvals, and
\* submit_approval_request on it succeeds exactly when the approver's rank
\* reaches the threshold
C22_ExpiryAdvisory ==
    [][/\ \A id \in NewIds :
            active_recommendations'[id].expires_at = clock' + SevenDays
       /\ \A id \in StoredIds :
            /\ active_recommendations'[id].approval_status # "expired"
            /\ NonApprovalFields(active_recommendations'[id]) =
                   NonApprovalFields(active_recommendations[id])
            /\ clock' # clock
                  => active_recommendations'[id] = active_recommendations[id]
       /\ (last'.op = "get_pending_approvals" /\ last'.role = NoStr)
              => \A id \in StoredIds :
                    IsPending(id) =>
                        \E i \in 1..Len(last'.rec) :
                            last'.rec[i] = active_recommendations[id]
       /\ \A req \in {ApprovalRequest(id, a[1], a[2], dec, "reviewed", clock) :
                        id \in StoredIds, a \in ExpiryApprovers,
                        dec \in Decisions} :
            SubmitApprovalRequest(req)
              => (last'.ok <=>
                    RoleOrder(req.approver_role) >=
                    RoleOrder(active_recommendations[req.recommendation_id]
                                  .approval_threshold))]_vars

(***************************************************************************)
(* Properties of the violation list (CascadeSpec)                          *)
(***************************************************************************)
\* position of a rule in the cascade
CascadeRank(rule) ==
    CASE rule = "critical_price_protection" -> 0
      [] rule = "extreme_price_reduction_protection" -> 1
      [] rule = "minimum_absolute_price" -> 2
      [] rule = "minimum_cost_margin" -> 3
      [] rule = "maximum_price_change" -> 4
      [] rule \in {"minimum_margin", "maximum_margin"} -> 5
      [] rule = "low_confidence" -> 6

\* the price handed to pass k of the cascade, and what the pass recorded
PassInput(k) ==
    IF k = 1 THEN candidate[1].recommended_price
    ELSE clamped[k - 1].recommended_price

PassViolations(k) == clamped[k].guardrail_violations

PriceSteps(k) ==
    SelectSeq(PassViolations(k), LAMBDA v : v.rule_name # "low_confidence")

\* C23: the violation list of one run of the cascade records the fired
\* steps in cascade order, and its price-altering entries form a chain from
\* the candidate price to the final recommended_price; with no
\* price-altering entry the final price is the candidate
C23_ViolationsChain ==
    \A k \in 1..Len(clamped) :
        /\ \A i, j \in 1..Len(PassViolations(k)) :
              i < j => CascadeRank(PassViolations(k)[i].rule_name)
                         < CascadeRank(PassViolations(k)[j].rule_name)
        /\ PriceSteps(k) = <<>> => clamped[k].recommended_price = PassInput(k)
        /\ PriceSteps(k) # <<>> =>
              /\ PriceSteps(k)[1].original_value = PassInput(k)
              /\ \A i \in 1..(Len(PriceSteps(k)) - 1) :
                    PriceSteps(k)[i].adjusted_value =
                        PriceSteps(k)[i + 1].original_value
              /\ PriceSteps(k)[Len(PriceSteps(k))].adjusted_value =
                     clamped[k].recommended_price

\* a run in which three price-altering steps and the low-confidence step
\* fired
C23_Witness ==
    /\ ClampedOnce
    /\ Len(PriceSteps(1)) >= 3
    /\ Len(PassViolations(1)) > Len(PriceSteps(1))

(***************************************************************************)
(* Properties of the low-confidence step (Spec)                            *)
(***************************************************************************)
HasLowConfidence(rec) ==
    \E i \in 1..Len(rec.guardrail_violations) :
        rec.guardrail_violations[i].rule_name = "low_confidence"

\* the price-altering violations of a recommendation
PriceAltering(rec) ==
    SelectSeq(rec.guardrail_violations,
              LAMBDA v : v.rule_name # "low_confidence")

\* the cascade ran on the recommendation process_query has just returned
CascadeRan ==
    /\ last.op = "process_query" /\ Ran("guardrails")
    /\ last.suggested[1] # <<>>

MarginRules == {"minimum_margin", "maximum_margin"}

MarginSteps ==
    SelectSeq(clamped[1].guardrail_violations,
              LAMBDA v : v.rule_name \in MarginRules)

\* the price the maximum-swing step left: what the margin step received
PriceAfterSwing ==
    IF MarginSteps # <<>> THEN MarginSteps[1].original_value ELSE FinalPrice

WithinSwing(price) ==
    RLe(RAbs(RSub(price, CascadeProduct.current_price)),
        RMul(Rat(1, 2), CascadeProduct.current_price))

\* C25: right after the maximum-swing step the price is within 50% of the
\* current price, for increases and decreases alike; so the final price of
\* the cascade lies outside that bound only if a minimum_margin or
\* maximum_margin violation was recorded in the same run
C25_SwingBoundAfterStep ==
    ClampedOnce =>
        /\ WithinSwing(PriceAfterSwing)
        /\ ~WithinSwing(FinalPrice) => MarginSteps # <<>>

\* the swing step limited an increase to +50% and the margin floor then
\* took the price outside the bound
C25_Witness ==
    /\ ClampedOnce
    /\ Fired("maximum_price_change")
    /\ Fired("minimum_margin")
    /\ WithinSwing(PriceAfterSwing)
    /\ ~WithinSwing(FinalPrice)

(***************************************************************************)
(* Properties of rejected and clamped recommendations (Spec)               *)
(***************************************************************************)
Returned == last.op = "process_query" /\ last.rec # <<>>

\* the stage that rejects the request, by the query and by the projected
\* impact of the candidate; "none" if no stage does
RejectingStage ==
    IF ValidatePricingTopic(QueryOf(last.rec[1])) # NoStr
    THEN "topic_validation_failed"
    ELSE IF ValidateFraudulentPricing(QueryOf(last.rec[1])) # NoStr
    THEN "fraudulent_pricing_detected"
    ELSE IF RevenueNegative THEN "negative_revenue_impact"
    ELSE NoStr

\* C26: a recommendation returned by process_query is rejected exactly when
\* the topic check, the fraud check or the revenue validator rejected the
\* request, and then carries exactly one violation named after the
\* rejecting stage; a recommendation whose price the cascade only clamped
\* is returned pending, with its violations
C26_RejectedExactlyByPolicy ==
    Returned =>
        /\ last.rec[1].approval_status = "rejected" <=> RejectingStage # NoStr
        /\ RejectingStage # NoStr =>
              /\ Len(last.rec[1].guardrail_violations) = 1
              /\ last.rec[1].guardrail_violations[1].rule_name = RejectingStage
        /\ RejectingStage = NoStr =>
              /\ last.rec[1].approval_status = "pending"
              /\ last.suggested[1] # <<>> =>
                    last.rec[1].guardrail_violations =
                        GuardrailCascade(
                            [last.rec[1] EXCEPT
                                 !.recommended_price = last.suggested[2]],
                            last.suggested[1][1]).violations

\* the cascade limited a +60% suggestion to +50%: returned pending with the
\* maximum_price_change violation
C26_Witness ==
    /\ Returned
    /\ last.rec[1].approval_status = "pending"
    /\ \E i \in 1..Len(last.rec[1].guardrail_violations) :
          last.rec[1].guardrail_violations[i].rule_name = "maximum_price_change"
    /\ \E id \in StoredIds : active_recommendations[id] = last.rec[1]

(***************************************************************************)
(* Policy rejections and the recommendation store (WorkflowSpec)           *)
(***************************************************************************)
PolicyRejected(rec) ==
    \E i \in 1..Len(rec.guardrail_violations) :
        rec.guardrail_violations[i].violation_type = "policy_violation"

RejectionReturned ==
    /\ last'.op = "process_query"
    /\ last'.rec # <<>>
    /\ PolicyRejected(last'.rec[1])

C27_Step ==
    /\ RejectionReturned =>
          /\ active_recommendations' = active_recommendations
          /\ last'.rec[1].recommendation_id = 0
          /\ \A id \in StoredIds : active_recommendations[id] # last'.rec[1]
    /\ \A id \in DOMAIN active_recommendations' \ StoredIds :
          active_recommendations'[id].approval_status = "pending"
    /\ \A id \in DOMAIN active_recommendations' :
          ~PolicyRejected(active_recommendations'[id])
    /\ last'.op = "get_pending_approvals" =>
          \A i \in 1..Len(last'.rec) : ~PolicyRejected(last'.rec[i])
    /\ last'.op = "submit_approval_request" /\ last'.ok =>
          \A id \in StoredIds :
              active_recommendations'[id] # active_recommendations[id] =>
                  ~PolicyRejected(active_recommendations[id])

\* C27: a recommendation rejected by policy (topic, fraud, negative revenue)
\* is returned without a recommendation_id and is not put in the store;
\* every entry enters the store pending, no listing of pending approvals
\* contains a policy-rejected recommendation and no approval request
\* resolves one
C27_PolicyRejectedNeverStored == [][C27_Step]_vars

\* a policy rejection was returned while the store holds a recommendation
\* that a director approved
C27_Witness ==
    /\ Returned
    /\ PolicyRejected(last.rec[1])
    /\ last.rec[1].guardrail_violations[1].rule_name = "negative_revenue_impact"
    /\ \E id \in StoredIds : active_recommendations[id].approval_status = "approved"

\* C28: for every product with current_price > 0 and cost_price >= 0 and
\* every candidate (None, zero and negative included) the price
\* _apply_enhanced_guardrails returns is set and strictly positive
C28_FinalPriceStrictlyPositive ==
    ClampedOnce => /\ FinalPrice # None
                   /\ RGt(FinalPrice, I(0))

(***************************************************************************)
(* Properties of roles outside the vocabulary (RoleSpec)                   *)
(***************************************************************************)
UnknownRole(role) == role \notin FourRoles /\ role # NoStr

AnalystTier(store, id) ==
    id \in DOMAIN store /\ store[id].approval_threshold = "analyst"

UnknownRoleSubmits ==
    \A req \in RoleRequests :
        (SubmitApprovalRequest(req) /\ UnknownRole(req.approver_role)) =>
            /\ last'.ok <=>
                   AnalystTier(active_recommendations, req.recommendation_id)
            /\ ~AnalystTier(active_recommendations, req.recommendation_id) =>
                   active_recommendations' = active_recommendations

UnknownRoleLists ==
    (last'.op = "get_pending_approvals" /\ UnknownRole(last'.role)) =>
        {last'.rec[i] : i \in 1..Len(last'.rec)} =
            {active_recommendations'[id] :
                id \in {i \in DOMAIN active_recommendations' :
                           /\ AnalystTier(active_recommendations', i)
                           /\ active_recommendations'[i].approval_status
                                  = "pending"}}

\* C29: a role outside {analyst, senior_analyst, manager, director} has the
\* authority of an analyst in submit_approval_request and in
\* get_pending_approvals: its request succeeds exactly on stored
\* recommendations whose approval_threshold is analyst, changes nothing on
\* one with a higher threshold, and its listing holds exactly the pending
\* recommendations whose threshold is analyst
C29_UnknownRoleIsAnalyst == [][UnknownRoleSubmits /\ UnknownRoleLists]_vars

(***************************************************************************)
(* Properties of the iteration-2 workflow graph (GraphSpec)                *)
(***************************************************************************)
SixNodes ==
    <<"analyze_query", "retrieve_data", "generate_recommendation",
      "run_simulation", "prepare_response", "await_approval">>

RunOver ==
    /\ analysis.engine # "none"
    /\ analysis.raised # "none" \/ analysis.result # <<>>

ResultKeys ==
    {"response", "recommendations", "simulations", "conversation_history",
     "approval_required"}

\* C30: a run_analysis in which the language model answers runs the nodes
\* analyze_query, retrieve_data, generate_recommendation, run_simulation,
\* prepare_response, await_approval once each in that order, with either
\* graph implementation, and then returns a result with the keys response,
\* recommendations, simulations, conversation_history and approval_required,
\* where approval_required is True
C30_SixNodesInOrder ==
    /\ analysis.engine # "none" =>
          analysis.visited = SubSeq(SixNodes, 1, Len(analysis.visited))
    /\ (RunOver /\ analysis.raised # "llm") =>
          /\ analysis.visited = SixNodes
          /\ analysis.result # <<>>
          /\ DOMAIN analysis.result[1] = ResultKeys
          /\ analysis.result[1].approval_required = TRUE

====
